---- MODULE Spec2Model ----
(***************************************************************************)
(* Energy Ingestion Engine: the dual-path write engine of                  *)
(* src/src/services/ingestion.service.ts (IngestionService) running its    *)
(* transactions against the PostgreSQL schema of src/init-db.sql.          *)
(*                                                                         *)
(* Numbers sent by a device are decimal fractions.  A number is modelled   *)
(* as an integer count of 10^-InputDigits units; a stored DECIMAL(p, s)    *)
(* column value is an integer count of 10^-s units.  Instants are whole    *)
(* hours counted from 2026-02-09T00:00:00Z, the lower bound of the first   *)
(* partition of init-db.sql.                                               *)
(***************************************************************************)
EXTENDS Integers, Sequences, FiniteSets, TLC

(***************************************************************************)
(* Bounds of the model.                                                    *)
(***************************************************************************)
\* decimal digits carried by the numbers of a request body
InputDigits == 4
\* number of service calls started in one behaviour
MaxCalls == 3
\* chunk size used by the concurrent model in place of batchSize = 1000
ChunkSize == 2
\* largest batch length explored by the chunk-loop specification
MaxReadings == 3001

\* requests that may be in flight at the same time
Callers == {"c1", "c2"}

(***************************************************************************)
(* Conversions                                                             *)
(***************************************************************************)
RECURSIVE Pow10(_)
Pow10(n) == IF n = 0 THEN 1 ELSE 10 * Pow10(n - 1)

\* PostgreSQL numeric rounding on assignment to a DECIMAL(p, scale) column:
\* round to `scale' fractional digits, ties away from zero.
Decimal(x, scale) ==
  LET d == Pow10(InputDigits - scale)
  IN  IF d = 1 THEN x
      ELSE IF x >= 0 THEN (x + d \div 2) \div d
      ELSE 0 - ((0 - x + d \div 2) \div d)

\* new Date(data.timestamp): an ISO 8601 string with a UTC offset denotes the
\* instant local - offset
NewDate(ts) == ts.local - ts.offset

\* data.batteryTemp ?? null; a nullable value is a sequence of length <= 1
OrNull(data) ==
  IF "batteryTemp" \in DOMAIN data THEN <<data.batteryTemp>> ELSE <<>>

\* DECIMAL(5, 2) of a nullable value
DecimalOrNull(o, scale) == IF o = <<>> THEN <<>> ELSE <<Decimal(o[1], scale)>>

(***************************************************************************)
(* Partitions of the two history tables (init-db.sql): three daily ranges  *)
(* [from, to) starting 2026-02-09 00:00:00+00.                             *)
(***************************************************************************)
MeterPartitions ==
  { [from |-> 0, to |-> 24], [from |-> 24, to |-> 48], [from |-> 48, to |-> 72] }

VehiclePartitions ==
  { [from |-> 0, to |-> 24], [from |-> 24, to |-> 48], [from |-> 48, to |-> 72] }

\* tuple routing of INSERT into a table PARTITION BY RANGE (timestamp)
HasPartition(parts, t) == \E p \in parts : p.from <= t /\ t < p.to

(***************************************************************************)
(* Request bodies (MeterTelemetryDto, VehicleTelemetryDto) the model       *)
(* draws its inputs from.  All pass validation: ids are non-empty          *)
(* strings, energies and voltage are >= 0, soc is in [0, 100].             *)
(***************************************************************************)
\* 125.456 kWh, 240.5 V at 2026-02-09T10:00Z
mA == [meterId |-> "METER_001", kwhConsumedAc |-> 125456 * Pow10(InputDigits - 3),
       voltage |-> 2405 * Pow10(InputDigits - 1),
       timestamp |-> [local |-> 10, offset |-> 0]]
\* same meter, an earlier instant (13:00+05:00 = 08:00Z), values carrying
\* InputDigits fractional digits
mB == [meterId |-> "METER_001", kwhConsumedAc |-> 100 * Pow10(InputDigits) + 3456,
       voltage |-> 240 * Pow10(InputDigits) + 1250,
       timestamp |-> [local |-> 13, offset |-> 5]]
\* another meter, second partition
mC == [meterId |-> "METER_002", kwhConsumedAc |-> 200 * Pow10(InputDigits),
       voltage |-> 230 * Pow10(InputDigits),
       timestamp |-> [local |-> 30, offset |-> 0]]
\* 2026-02-12T00:00Z: no partition covers it
mD == [meterId |-> "METER_002", kwhConsumedAc |-> 50 * Pow10(InputDigits),
       voltage |-> 231 * Pow10(InputDigits),
       timestamp |-> [local |-> 72, offset |-> 0]]

MeterInputs == {mA, mB, mC, mD}

\* 85.5 %, 106.638 kWh, 35.2 C at 2026-02-09T10:00Z
vA == [vehicleId |-> "VEHICLE_001", soc |-> 855 * Pow10(InputDigits - 1),
       kwhDeliveredDc |-> 106638 * Pow10(InputDigits - 3),
       batteryTemp |-> 352 * Pow10(InputDigits - 1),
       timestamp |-> [local |-> 10, offset |-> 0]]
\* same vehicle, earlier instant (07:00-01:00 = 08:00Z), no batteryTemp
vB == [vehicleId |-> "VEHICLE_001", soc |-> 50 * Pow10(InputDigits) + 50,
       kwhDeliveredDc |-> 42 * Pow10(InputDigits) + 1235,
       timestamp |-> [local |-> 7, offset |-> 0 - 1]]
\* another vehicle, second partition, temperature -5.125 C
vC == [vehicleId |-> "VEHICLE_002", soc |-> 100 * Pow10(InputDigits),
       kwhDeliveredDc |-> 30 * Pow10(InputDigits),
       batteryTemp |-> 0 - (5 * Pow10(InputDigits) + 1250),
       timestamp |-> [local |-> 30, offset |-> 0]]
\* 2026-02-12T00:00Z: no partition covers it
vD == [vehicleId |-> "VEHICLE_002", soc |-> 10 * Pow10(InputDigits),
       kwhDeliveredDc |-> 5 * Pow10(InputDigits),
       batteryTemp |-> 20 * Pow10(InputDigits),
       timestamp |-> [local |-> 72, offset |-> 0]]

VehicleInputs == {vA, vB, vC, vD}

\* Request bodies of the batch endpoints (readings arrays).  They cover: an
\* empty array, one full chunk of distinct devices in either order, one
\* device twice in a chunk, a batch that spans two chunks, and a batch whose
\* last reading has no partition.
MeterBatchInputs ==
  { <<>>, <<mA, mC>>, <<mC, mA>>, <<mA, mB>>, <<mC, mA, mB>>, <<mA, mC, mD>> }

VehicleBatchInputs ==
  { <<>>, <<vA, vC>>, <<vC, vA>>, <<vA, vB>>, <<vC, vA, vB>>, <<vA, vC, vD>> }

(***************************************************************************)
(* Storage statements                                                      *)
(***************************************************************************)
Min(a, b) == IF a < b THEN a ELSE b

\* Array.prototype.slice(from, to) on a sequence (indices from 0, to exclusive)
slice(arr, from, to) == SubSeq(arr, from + 1, Min(to, Len(arr)))

\* UpsertMeterRow with 'voltage' missing from the overwrite list
UpsertMeterRow_NoVoltage(table, v, now) ==
  IF \E r \in table : r.meterId = v.meterId
  THEN { IF r.meterId = v.meterId
         THEN [r EXCEPT !.kwhConsumedAc = Decimal(v.kwhConsumedAc, 3),
                        !.lastUpdateTimestamp = v.lastUpdateTimestamp,
                        !.updatedAt = now]
         ELSE r : r \in table }
  ELSE table \cup { [meterId |-> v.meterId,
                     kwhConsumedAc |-> Decimal(v.kwhConsumedAc, 3),
                     voltage |-> Decimal(v.voltage, 2),
                     lastUpdateTimestamp |-> v.lastUpdateTimestamp,
                     status |-> "valid",
                     createdAt |-> now, updatedAt |-> now] }

\* UpsertMeterRow as a plain INSERT, without the ON CONFLICT clause taking effect
UpsertMeterRow_InsertOnly(table, v, now) ==
  table \cup { [meterId |-> v.meterId,
                kwhConsumedAc |-> Decimal(v.kwhConsumedAc, 3),
                voltage |-> Decimal(v.voltage, 2),
                lastUpdateTimestamp |-> v.lastUpdateTimestamp,
                status |-> "valid",
                createdAt |-> now, updatedAt |-> now] }

\* UpsertMeterRow guarded by the reading's timestamp: an older reading does
\* not overwrite a newer row
UpsertMeterRow_NewerOnly(table, v, now) ==
  IF \E r \in table : r.meterId = v.meterId
  THEN { IF r.meterId = v.meterId /\ v.lastUpdateTimestamp >= r.lastUpdateTimestamp
         THEN [r EXCEPT !.kwhConsumedAc = Decimal(v.kwhConsumedAc, 3),
                        !.voltage = Decimal(v.voltage, 2),
                        !.lastUpdateTimestamp = v.lastUpdateTimestamp,
                        !.updatedAt = now]
         ELSE r : r \in table }
  ELSE table \cup { [meterId |-> v.meterId,
                     kwhConsumedAc |-> Decimal(v.kwhConsumedAc, 3),
                     voltage |-> Decimal(v.voltage, 2),
                     lastUpdateTimestamp |-> v.lastUpdateTimestamp,
                     status |-> "valid",
                     createdAt |-> now, updatedAt |-> now] }

\* UpsertMeterRow with 'status' in the overwrite list: the tag of an existing
\* row is reset to the column default of the proposed row
UpsertMeterRow_StatusOverwritten(table, v, now) ==
  IF \E r \in table : r.meterId = v.meterId
  THEN { IF r.meterId = v.meterId
         THEN [r EXCEPT !.kwhConsumedAc = Decimal(v.kwhConsumedAc, 3),
                        !.voltage = Decimal(v.voltage, 2),
                        !.lastUpdateTimestamp = v.lastUpdateTimestamp,
                        !.updatedAt = now,
                        !.status = "valid"]
         ELSE r : r \in table }
  ELSE table \cup { [meterId |-> v.meterId,
                     kwhConsumedAc |-> Decimal(v.kwhConsumedAc, 3),
                     voltage |-> Decimal(v.voltage, 2),
                     lastUpdateTimestamp |-> v.lastUpdateTimestamp,
                     status |-> "valid",
                     createdAt |-> now, updatedAt |-> now] }

\* UpsertMeterRow with 'created_at' in the overwrite list: the creation
\* instant of an existing row is replaced by that of the proposed row
UpsertMeterRow_CreatedAtOverwritten(table, v, now) ==
  IF \E r \in table : r.meterId = v.meterId
  THEN { IF r.meterId = v.meterId
         THEN [r EXCEPT !.kwhConsumedAc = Decimal(v.kwhConsumedAc, 3),
                        !.voltage = Decimal(v.voltage, 2),
                        !.lastUpdateTimestamp = v.lastUpdateTimestamp,
                        !.updatedAt = now,
                        !.createdAt = now]
         ELSE r : r \in table }
  ELSE table \cup { [meterId |-> v.meterId,
                     kwhConsumedAc |-> Decimal(v.kwhConsumedAc, 3),
                     voltage |-> Decimal(v.voltage, 2),
                     lastUpdateTimestamp |-> v.lastUpdateTimestamp,
                     status |-> "valid",
                     createdAt |-> now, updatedAt |-> now] }

\* INSERT INTO current_meter_status (...) VALUES (v) ON CONFLICT (meter_id)
\* DO UPDATE SET kwh_consumed_ac, voltage, last_update_timestamp, updated_at
\* = EXCLUDED.* for one proposed row v in a transaction whose NOW() is now.
\* The columns status, created_at and updated_at of the proposed row are
\* their defaults ('valid', NOW(), NOW()); status and created_at are not in
\* the overwrite list; the trigger update_updated_at_column sets updated_at
\* of an updated row to NOW() as well.
UpsertMeterRow(table, v, now) ==
  IF \E r \in table : r.meterId = v.meterId
  THEN { IF r.meterId = v.meterId
         THEN [r EXCEPT !.kwhConsumedAc = Decimal(v.kwhConsumedAc, 3),
                        !.voltage = Decimal(v.voltage, 2),
                        !.lastUpdateTimestamp = v.lastUpdateTimestamp,
                        !.updatedAt = now]
         ELSE r : r \in table }
  ELSE table \cup { [meterId |-> v.meterId,
                     kwhConsumedAc |-> Decimal(v.kwhConsumedAc, 3),
                     voltage |-> Decimal(v.voltage, 2),
                     lastUpdateTimestamp |-> v.lastUpdateTimestamp,
                     status |-> "valid",
                     createdAt |-> now, updatedAt |-> now] }

\* UpsertVehicleRow with 'battery_temp' missing from the overwrite list: the
\* row keeps the temperature of an earlier reading next to the other fields
\* of the new one
UpsertVehicleRow_NoBatteryTemp(table, v, now) ==
  IF \E r \in table : r.vehicleId = v.vehicleId
  THEN { IF r.vehicleId = v.vehicleId
         THEN [r EXCEPT !.soc = Decimal(v.soc, 2),
                        !.kwhDeliveredDc = Decimal(v.kwhDeliveredDc, 3),
                        !.lastUpdateTimestamp = v.lastUpdateTimestamp,
                        !.updatedAt = now]
         ELSE r : r \in table }
  ELSE table \cup { [vehicleId |-> v.vehicleId,
                     soc |-> Decimal(v.soc, 2),
                     kwhDeliveredDc |-> Decimal(v.kwhDeliveredDc, 3),
                     batteryTemp |-> DecimalOrNull(v.batteryTemp, 2),
                     lastUpdateTimestamp |-> v.lastUpdateTimestamp,
                     status |-> "valid",
                     createdAt |-> now, updatedAt |-> now] }

\* the same statement on current_vehicle_status, conflict target vehicle_id
UpsertVehicleRow(table, v, now) ==
  IF \E r \in table : r.vehicleId = v.vehicleId
  THEN { IF r.vehicleId = v.vehicleId
         THEN [r EXCEPT !.soc = Decimal(v.soc, 2),
                        !.kwhDeliveredDc = Decimal(v.kwhDeliveredDc, 3),
                        !.batteryTemp = DecimalOrNull(v.batteryTemp, 2),
                        !.lastUpdateTimestamp = v.lastUpdateTimestamp,
                        !.updatedAt = now]
         ELSE r : r \in table }
  ELSE table \cup { [vehicleId |-> v.vehicleId,
                     soc |-> Decimal(v.soc, 2),
                     kwhDeliveredDc |-> Decimal(v.kwhDeliveredDc, 3),
                     batteryTemp |-> DecimalOrNull(v.batteryTemp, 2),
                     lastUpdateTimestamp |-> v.lastUpdateTimestamp,
                     status |-> "valid",
                     createdAt |-> now, updatedAt |-> now] }

\* the proposed rows of one upsert statement, applied in VALUES order
RECURSIVE UpsertMeter(_, _, _)
UpsertMeter(table, values, now) ==
  IF values = <<>> THEN table
  ELSE UpsertMeter(UpsertMeterRow(table, Head(values), now), Tail(values), now)

RECURSIVE UpsertVehicle(_, _, _)
UpsertVehicle(table, values, now) ==
  IF values = <<>> THEN table
  ELSE UpsertVehicle(UpsertVehicleRow(table, Head(values), now), Tail(values), now)

\* .values({meterId, kwhConsumedAc, voltage, lastUpdateTimestamp})
MeterHotValues(r) ==
  [meterId |-> r.meterId, kwhConsumedAc |-> r.kwhConsumedAc,
   voltage |-> r.voltage, lastUpdateTimestamp |-> NewDate(r.timestamp)]

\* .values({vehicleId, soc, kwhDeliveredDc, batteryTemp, lastUpdateTimestamp})
VehicleHotValues(r) ==
  [vehicleId |-> r.vehicleId, soc |-> r.soc, kwhDeliveredDc |-> r.kwhDeliveredDc,
   batteryTemp |-> OrNull(r), lastUpdateTimestamp |-> NewDate(r.timestamp)]

\* .values({meterId, kwhConsumedAc, voltage, timestamp})
MeterColdValues(r) ==
  [meterId |-> r.meterId, kwhConsumedAc |-> r.kwhConsumedAc,
   voltage |-> r.voltage, timestamp |-> NewDate(r.timestamp)]

\* .values({vehicleId, soc, kwhDeliveredDc, batteryTemp, timestamp})
VehicleColdValues(r) ==
  [vehicleId |-> r.vehicleId, soc |-> r.soc, kwhDeliveredDc |-> r.kwhDeliveredDc,
   batteryTemp |-> OrNull(r), timestamp |-> NewDate(r.timestamp)]

\* the row INSERT INTO meter_telemetry_history stores for proposed row v with
\* id drawn from the BIGSERIAL sequence
MeterHistoryRow(v, id, now) ==
  [id |-> id, meterId |-> v.meterId,
   kwhConsumedAc |-> Decimal(v.kwhConsumedAc, 3),
   voltage |-> Decimal(v.voltage, 2),
   timestamp |-> v.timestamp, status |-> "valid",
   createdAt |-> now]

\* the row INSERT INTO vehicle_telemetry_history stores
VehicleHistoryRow(v, id, now) ==
  [id |-> id, vehicleId |-> v.vehicleId,
   soc |-> Decimal(v.soc, 2),
   kwhDeliveredDc |-> Decimal(v.kwhDeliveredDc, 3),
   batteryTemp |-> DecimalOrNull(v.batteryTemp, 2),
   timestamp |-> v.timestamp, status |-> "valid",
   createdAt |-> now]

\* batch.map(r => hot/cold values)
MapSeq(F(_), s) == [k \in 1..Len(s) |-> F(s[k])]

\* InsertMeterHistory that stores only the first row of a bulk INSERT
InsertMeterHistory_FirstRowOnly(values, firstId, now) ==
  [k \in 1..Min(1, Len(values)) |-> MeterHistoryRow(values[k], firstId + k, now)]

\* rows of one history INSERT whose ids start after firstId
InsertMeterHistory(values, firstId, now) ==
  [k \in 1..Len(values) |-> MeterHistoryRow(values[k], firstId + k, now)]

InsertVehicleHistory(values, firstId, now) ==
  [k \in 1..Len(values) |-> VehicleHistoryRow(values[k], firstId + k, now)]

(***************************************************************************)
(* State                                                                   *)
(***************************************************************************)
VARIABLES
  currentMeterStatus,    \* committed rows of current_meter_status (a set)
  meterHistory,          \* committed rows of meter_telemetry_history, in commit order
  meterHistorySeq,       \* last value of the BIGSERIAL sequence of meter_telemetry_history
  currentVehicleStatus,  \* committed rows of current_vehicle_status (a set)
  vehicleHistory,        \* committed rows of vehicle_telemetry_history, in commit order
  vehicleHistorySeq,     \* last value of the BIGSERIAL sequence of vehicle_telemetry_history
  calls,                 \* per caller: the service call in flight, its position, and the
                         \* ids of the history rows it has committed (InsertResult)
  started,               \* number of service calls started
  loop,                  \* the chunk loop of one batch call over n readings, by index
  clock,                 \* the instant the analytics service last read from the system clock
  queries,               \* per client: the analytics request in flight, its locals and result
  NOW                    \* the instant the database server's clock shows: a transaction
                         \* that begins reads it and NOW() returns that value until it ends

vars == <<currentMeterStatus, meterHistory, meterHistorySeq,
          currentVehicleStatus, vehicleHistory, vehicleHistorySeq, calls, started, loop,
          clock, queries, NOW>>

meterStores == <<currentMeterStatus, meterHistory>>
vehicleStores == <<currentVehicleStatus, vehicleHistory>>
stores == <<currentMeterStatus, meterHistory, currentVehicleStatus, vehicleHistory>>

NoCall ==
  [op |-> "none", readings |-> <<>>, i |-> 0, j |-> 0, pc |-> "idle",
   firstId |-> 0, insertedIds |-> <<>>, error |-> "none", now |-> 0]

NoLoop == [n |-> 0, i |-> 0, transactions |-> 0, chunks |-> <<>>, pc |-> "none"]

\* clients of the analytics endpoint that may have a request in flight
Clients == {"q1", "q2"}

\* no request: the locals of getVehiclePerformance24h /
\* getVehiclePerformanceWithMeter before the call
NoQuery ==
  [op |-> "none", vehicleId |-> "", meterId |-> <<>>, now |-> 0,
   twentyFourHoursAgo |-> 0, pc |-> "idle", vehicleData |-> <<>>,
   read |-> <<0, 0>>, efficiencyRatio |-> [num |-> 0, den |-> 1],
   result |-> <<>>, error |-> "none"]

Init ==
  /\ currentMeterStatus = {}
  /\ meterHistory = <<>>
  /\ meterHistorySeq = 0
  /\ currentVehicleStatus = {}
  /\ vehicleHistory = <<>>
  /\ vehicleHistorySeq = 0
  /\ calls = [c \in Callers |-> NoCall]
  /\ started = 0
  /\ loop = NoLoop
  /\ clock = 0
  /\ queries = [q \in Clients |-> NoQuery]
  /\ NOW = 0

(***************************************************************************)
(* Transactions.  dataSource.transaction(cb) opens a transaction, runs the *)
(* statements of cb and commits; an error in any of them rolls the whole   *)
(* transaction back and rethrows it.  PostgreSQL runs the transactions at  *)
(* READ COMMITTED: an upsert locks the row (or the key it inserts) until   *)
(* its transaction ends, and what a transaction wrote becomes visible to   *)
(* the others when it commits.                                             *)
(***************************************************************************)
InTx(c) == calls[c].pc \in {"begun", "upserted", "inserted"}

CanStart(c) == calls[c].pc \in {"idle", "resolved", "rejected"} /\ started < MaxCalls

IsMeterOp(c) == calls[c].op \in {"ingestMeterTelemetry", "ingestMeterBatch"}
IsVehicleOp(c) == calls[c].op \in {"ingestVehicleTelemetry", "ingestVehicleBatch"}
IsBatchOp(c) == calls[c].op \in {"ingestMeterBatch", "ingestVehicleBatch"}

\* the readings written by the open transaction of c:
\* const batch = readings.slice(i, i + batchSize), or the single reading
Batch(c) ==
  IF IsBatchOp(c)
  THEN slice(calls[c].readings, calls[c].i, calls[c].i + ChunkSize)
  ELSE calls[c].readings

\* keys of current_meter_status locked by the open transaction of c
HeldMeterKeys(c) ==
  IF InTx(c) /\ IsMeterOp(c)
  THEN { Batch(c)[k].meterId : k \in 1..calls[c].j } ELSE {}

\* keys of current_vehicle_status locked by the open transaction of c
HeldVehicleKeys(c) ==
  IF InTx(c) /\ IsVehicleOp(c)
  THEN { Batch(c)[k].vehicleId : k \in 1..calls[c].j } ELSE {}

\* MeterKeyFree of an upsert that locks the whole table: it waits while
\* another transaction holds any key of current_meter_status
MeterKeyFree_TableLock(c, id) == \A d \in Callers \ {c} : HeldMeterKeys(d) = {}

MeterKeyFree(c, id) == \A d \in Callers \ {c} : id \notin HeldMeterKeys(d)
VehicleKeyFree(c, id) == \A d \in Callers \ {c} : id \notin HeldVehicleKeys(d)

\* the rejected promise: the transaction is rolled back, the error rethrown
Rejected(call, message) ==
  [call EXCEPT !.pc = "rejected", !.j = 0, !.error = message]

\* number of rows of an INSERT that drew an id before tuple routing stopped it
RECURSIVE Routed(_, _)
Routed(parts, values) ==
  IF values = <<>> THEN 0
  ELSE IF HasPartition(parts, Head(values).timestamp)
       THEN 1 + Routed(parts, Tail(values))
       ELSE 1

AllRouted(parts, values) ==
  \A k \in 1..Len(values) : HasPartition(parts, values[k].timestamp)

(***************************************************************************)
(* ingestMeterTelemetry(data)                                              *)
(***************************************************************************)
\* the call: await this.dataSource.transaction(...) opens the transaction
ingestMeterTelemetry(c, data) ==
  /\ CanStart(c)
  /\ calls' = [calls EXCEPT ![c] =
       [op |-> "ingestMeterTelemetry", readings |-> <<data>>, i |-> 0, j |-> 0,
        pc |-> "begun", firstId |-> 0, insertedIds |-> <<>>, error |-> "none", now |-> NOW]]
  /\ started' = started + 1
  /\ UNCHANGED <<loop, NOW, clock, queries, stores, meterHistorySeq, vehicleHistorySeq>>

\* ingestMeterTelemetry_upsert in a transaction that does not wait for the
\* row lock: the upsert of a row locked by another transaction fails
ingestMeterTelemetry_upsert_NoWait(c) ==
  /\ calls[c].op = "ingestMeterTelemetry" /\ calls[c].pc = "begun"
  /\ calls' = [calls EXCEPT ![c] =
       IF MeterKeyFree(c, calls[c].readings[1].meterId)
       THEN [@ EXCEPT !.j = 1, !.pc = "upserted"]
       ELSE Rejected(@, "could not serialize access due to concurrent update")]
  /\ UNCHANGED <<loop, NOW, clock, queries, stores, meterHistorySeq, vehicleHistorySeq, started>>

\* HOT PATH: the upsert into current_meter_status; it waits while another
\* transaction holds the key
ingestMeterTelemetry_upsert(c) ==
  /\ calls[c].op = "ingestMeterTelemetry" /\ calls[c].pc = "begun"
  /\ MeterKeyFree(c, calls[c].readings[1].meterId)
  /\ calls' = [calls EXCEPT ![c].j = 1, ![c].pc = "upserted"]
  /\ UNCHANGED <<loop, NOW, clock, queries, stores, meterHistorySeq, vehicleHistorySeq, started>>

\* COLD PATH: the insert into meter_telemetry_history
ingestMeterTelemetry_insert(c) ==
  /\ calls[c].op = "ingestMeterTelemetry" /\ calls[c].pc = "upserted"
  /\ LET values == <<MeterColdValues(calls[c].readings[1])>>
     IN  /\ meterHistorySeq' = meterHistorySeq + Routed(MeterPartitions, values)
         /\ calls' = [calls EXCEPT ![c] =
              IF AllRouted(MeterPartitions, values)
              THEN [@ EXCEPT !.pc = "inserted", !.firstId = meterHistorySeq]
              ELSE Rejected(@, "no partition of relation found for row")]
  /\ UNCHANGED <<loop, NOW, clock, queries, stores, vehicleHistorySeq, started>>

\* ingestMeterTelemetry_commit that inserts the history row through the
\* repository of the other device class: the row lands in
\* vehicle_telemetry_history
ingestMeterTelemetry_commit_OtherClass(c) ==
  /\ calls[c].op = "ingestMeterTelemetry" /\ calls[c].pc = "inserted"
  /\ currentMeterStatus' =
       UpsertMeter(currentMeterStatus, <<MeterHotValues(calls[c].readings[1])>>, calls[c].now)
  /\ vehicleHistory' = vehicleHistory \o
       InsertMeterHistory(<<MeterColdValues(calls[c].readings[1])>>, calls[c].firstId, calls[c].now)
  /\ calls' = [calls EXCEPT ![c].pc = "resolved", ![c].j = 0,
       ![c].insertedIds = @ \o <<calls[c].firstId + 1>>]
  /\ UNCHANGED <<loop, NOW, clock, queries, meterHistory, currentVehicleStatus,
                 meterHistorySeq, vehicleHistorySeq, started>>

\* COMMIT: both writes become visible together, the promise resolves
ingestMeterTelemetry_commit(c) ==
  /\ calls[c].op = "ingestMeterTelemetry" /\ calls[c].pc = "inserted"
  /\ currentMeterStatus' =
       UpsertMeter(currentMeterStatus, <<MeterHotValues(calls[c].readings[1])>>, calls[c].now)
  /\ meterHistory' = meterHistory \o
       InsertMeterHistory(<<MeterColdValues(calls[c].readings[1])>>, calls[c].firstId, calls[c].now)
  /\ calls' = [calls EXCEPT ![c].pc = "resolved", ![c].j = 0,
       ![c].insertedIds = @ \o <<calls[c].firstId + 1>>]
  /\ UNCHANGED <<loop, NOW, clock, queries, vehicleStores, meterHistorySeq, vehicleHistorySeq, started>>

(***************************************************************************)
(* ingestMeterBatch(readings)                                              *)
(***************************************************************************)
\* the call: the loop test i < readings.length with i = 0, then the first
\* transaction
ingestMeterBatch(c, readings) ==
  /\ CanStart(c)
  /\ calls' = [calls EXCEPT ![c] =
       [op |-> "ingestMeterBatch", readings |-> readings, i |-> 0, j |-> 0,
        pc |-> IF 0 < Len(readings) THEN "begun" ELSE "resolved",
        firstId |-> 0, insertedIds |-> <<>>, error |-> "none", now |-> NOW]]
  /\ started' = started + 1
  /\ UNCHANGED <<loop, NOW, clock, queries, stores, meterHistorySeq, vehicleHistorySeq>>

\* Bulk UPSERT for hot table, one proposed row at a time in VALUES order: a
\* key the statement has already affected is a cardinality violation, a key
\* locked by another transaction makes the statement wait
ingestMeterBatch_upsert(c) ==
  /\ calls[c].op = "ingestMeterBatch" /\ calls[c].pc = "begun"
  /\ LET hotValues == MapSeq(MeterHotValues, Batch(c))
         v == hotValues[calls[c].j + 1]
     IN  IF v.meterId \in HeldMeterKeys(c)
         THEN calls' = [calls EXCEPT ![c] =
                Rejected(@, "ON CONFLICT DO UPDATE command cannot affect row a second time")]
         ELSE /\ MeterKeyFree(c, v.meterId)
              /\ calls' = [calls EXCEPT ![c].j = @ + 1,
                   ![c].pc = IF calls[c].j + 1 = Len(hotValues) THEN "upserted" ELSE "begun"]
  /\ UNCHANGED <<loop, NOW, clock, queries, stores, meterHistorySeq, vehicleHistorySeq, started>>

\* Bulk INSERT for cold table
ingestMeterBatch_insert(c) ==
  /\ calls[c].op = "ingestMeterBatch" /\ calls[c].pc = "upserted"
  /\ LET coldValues == MapSeq(MeterColdValues, Batch(c))
     IN  /\ meterHistorySeq' = meterHistorySeq + Routed(MeterPartitions, coldValues)
         /\ calls' = [calls EXCEPT ![c] =
              IF AllRouted(MeterPartitions, coldValues)
              THEN [@ EXCEPT !.pc = "inserted", !.firstId = meterHistorySeq]
              ELSE Rejected(@, "no partition of relation found for row")]
  /\ UNCHANGED <<loop, NOW, clock, queries, stores, vehicleHistorySeq, started>>

\* ingestMeterBatch_commit of a loop that does not await the transaction:
\* i += batchSize and the next transaction opens while the rows of this
\* chunk are not committed
ingestMeterBatch_commit_NotAwaited(c) ==
  /\ calls[c].op = "ingestMeterBatch" /\ calls[c].pc = "inserted"
  /\ IF calls[c].i + ChunkSize < Len(calls[c].readings)
     THEN /\ calls' = [calls EXCEPT ![c].i = @ + ChunkSize, ![c].j = 0, ![c].now = NOW,
                              ![c].pc = "begun"]
          /\ UNCHANGED meterStores
     ELSE /\ currentMeterStatus' =
               UpsertMeter(currentMeterStatus, MapSeq(MeterHotValues, Batch(c)), calls[c].now)
          /\ meterHistory' = meterHistory \o
               InsertMeterHistory(MapSeq(MeterColdValues, Batch(c)), calls[c].firstId, calls[c].now)
          /\ calls' = [calls EXCEPT ![c].i = @ + ChunkSize, ![c].j = 0,
               ![c].insertedIds = @ \o [k \in 1..Len(Batch(c)) |-> calls[c].firstId + k],
               ![c].pc = "resolved"]
  /\ UNCHANGED <<loop, NOW, clock, queries, vehicleStores, meterHistorySeq, vehicleHistorySeq, started>>

\* COMMIT of the chunk, then i += batchSize and the loop test: the next
\* transaction opens, or the promise resolves
ingestMeterBatch_commit(c) ==
  /\ calls[c].op = "ingestMeterBatch" /\ calls[c].pc = "inserted"
  /\ currentMeterStatus' =
       UpsertMeter(currentMeterStatus, MapSeq(MeterHotValues, Batch(c)), calls[c].now)
  /\ meterHistory' = meterHistory \o
       InsertMeterHistory(MapSeq(MeterColdValues, Batch(c)), calls[c].firstId, calls[c].now)
  /\ calls' = [calls EXCEPT ![c].i = @ + ChunkSize, ![c].j = 0, ![c].now = NOW,
       ![c].insertedIds = @ \o [k \in 1..Len(Batch(c)) |-> calls[c].firstId + k],
       ![c].pc = IF calls[c].i + ChunkSize < Len(calls[c].readings)
                 THEN "begun" ELSE "resolved"]
  /\ UNCHANGED <<loop, NOW, clock, queries, vehicleStores, meterHistorySeq, vehicleHistorySeq, started>>

(***************************************************************************)
(* ingestVehicleTelemetry(data)                                              *)
(***************************************************************************)
\* the call: await this.dataSource.transaction(...) opens the transaction
ingestVehicleTelemetry(c, data) ==
  /\ CanStart(c)
  /\ calls' = [calls EXCEPT ![c] =
       [op |-> "ingestVehicleTelemetry", readings |-> <<data>>, i |-> 0, j |-> 0,
        pc |-> "begun", firstId |-> 0, insertedIds |-> <<>>, error |-> "none", now |-> NOW]]
  /\ started' = started + 1
  /\ UNCHANGED <<loop, NOW, clock, queries, stores, meterHistorySeq, vehicleHistorySeq>>

\* HOT PATH: the upsert into current_vehicle_status; it waits while another
\* transaction holds the key
ingestVehicleTelemetry_upsert(c) ==
  /\ calls[c].op = "ingestVehicleTelemetry" /\ calls[c].pc = "begun"
  /\ VehicleKeyFree(c, calls[c].readings[1].vehicleId)
  /\ calls' = [calls EXCEPT ![c].j = 1, ![c].pc = "upserted"]
  /\ UNCHANGED <<loop, NOW, clock, queries, stores, meterHistorySeq, vehicleHistorySeq, started>>

\* COLD PATH: the insert into vehicle_telemetry_history
ingestVehicleTelemetry_insert(c) ==
  /\ calls[c].op = "ingestVehicleTelemetry" /\ calls[c].pc = "upserted"
  /\ LET values == <<VehicleColdValues(calls[c].readings[1])>>
     IN  /\ vehicleHistorySeq' = vehicleHistorySeq + Routed(VehiclePartitions, values)
         /\ calls' = [calls EXCEPT ![c] =
              IF AllRouted(VehiclePartitions, values)
              THEN [@ EXCEPT !.pc = "inserted", !.firstId = vehicleHistorySeq]
              ELSE Rejected(@, "no partition of relation found for row")]
  /\ UNCHANGED <<loop, NOW, clock, queries, stores, meterHistorySeq, started>>

\* COMMIT: both writes become visible together, the promise resolves
ingestVehicleTelemetry_commit(c) ==
  /\ calls[c].op = "ingestVehicleTelemetry" /\ calls[c].pc = "inserted"
  /\ currentVehicleStatus' =
       UpsertVehicle(currentVehicleStatus, <<VehicleHotValues(calls[c].readings[1])>>, calls[c].now)
  /\ vehicleHistory' = vehicleHistory \o
       InsertVehicleHistory(<<VehicleColdValues(calls[c].readings[1])>>, calls[c].firstId, calls[c].now)
  /\ calls' = [calls EXCEPT ![c].pc = "resolved", ![c].j = 0,
       ![c].insertedIds = @ \o <<calls[c].firstId + 1>>]
  /\ UNCHANGED <<loop, NOW, clock, queries, meterStores, meterHistorySeq, vehicleHistorySeq, started>>

(***************************************************************************)
(* ingestVehicleBatch(readings)                                              *)
(***************************************************************************)
\* the call: the loop test i < readings.length with i = 0, then the first
\* transaction
ingestVehicleBatch(c, readings) ==
  /\ CanStart(c)
  /\ calls' = [calls EXCEPT ![c] =
       [op |-> "ingestVehicleBatch", readings |-> readings, i |-> 0, j |-> 0,
        pc |-> IF 0 < Len(readings) THEN "begun" ELSE "resolved",
        firstId |-> 0, insertedIds |-> <<>>, error |-> "none", now |-> NOW]]
  /\ started' = started + 1
  /\ UNCHANGED <<loop, NOW, clock, queries, stores, meterHistorySeq, vehicleHistorySeq>>

\* Bulk UPSERT for hot table, one proposed row at a time in VALUES order: a
\* key the statement has already affected is a cardinality violation, a key
\* locked by another transaction makes the statement wait
ingestVehicleBatch_upsert(c) ==
  /\ calls[c].op = "ingestVehicleBatch" /\ calls[c].pc = "begun"
  /\ LET hotValues == MapSeq(VehicleHotValues, Batch(c))
         v == hotValues[calls[c].j + 1]
     IN  IF v.vehicleId \in HeldVehicleKeys(c)
         THEN calls' = [calls EXCEPT ![c] =
                Rejected(@, "ON CONFLICT DO UPDATE command cannot affect row a second time")]
         ELSE /\ VehicleKeyFree(c, v.vehicleId)
              /\ calls' = [calls EXCEPT ![c].j = @ + 1,
                   ![c].pc = IF calls[c].j + 1 = Len(hotValues) THEN "upserted" ELSE "begun"]
  /\ UNCHANGED <<loop, NOW, clock, queries, stores, meterHistorySeq, vehicleHistorySeq, started>>

\* Bulk INSERT for cold table
ingestVehicleBatch_insert(c) ==
  /\ calls[c].op = "ingestVehicleBatch" /\ calls[c].pc = "upserted"
  /\ LET coldValues == MapSeq(VehicleColdValues, Batch(c))
     IN  /\ vehicleHistorySeq' = vehicleHistorySeq + Routed(VehiclePartitions, coldValues)
         /\ calls' = [calls EXCEPT ![c] =
              IF AllRouted(VehiclePartitions, coldValues)
              THEN [@ EXCEPT !.pc = "inserted", !.firstId = vehicleHistorySeq]
              ELSE Rejected(@, "no partition of relation found for row")]
  /\ UNCHANGED <<loop, NOW, clock, queries, stores, meterHistorySeq, started>>

\* COMMIT of the chunk, then i += batchSize and the loop test: the next
\* transaction opens, or the promise resolves
ingestVehicleBatch_commit(c) ==
  /\ calls[c].op = "ingestVehicleBatch" /\ calls[c].pc = "inserted"
  /\ currentVehicleStatus' =
       UpsertVehicle(currentVehicleStatus, MapSeq(VehicleHotValues, Batch(c)), calls[c].now)
  /\ vehicleHistory' = vehicleHistory \o
       InsertVehicleHistory(MapSeq(VehicleColdValues, Batch(c)), calls[c].firstId, calls[c].now)
  /\ calls' = [calls EXCEPT ![c].i = @ + ChunkSize, ![c].j = 0, ![c].now = NOW,
       ![c].insertedIds = @ \o [k \in 1..Len(Batch(c)) |-> calls[c].firstId + k],
       ![c].pc = IF calls[c].i + ChunkSize < Len(calls[c].readings)
                 THEN "begun" ELSE "resolved"]
  /\ UNCHANGED <<loop, NOW, clock, queries, meterStores, meterHistorySeq, vehicleHistorySeq, started>>

(***************************************************************************)
(* Failures of the storage engine                                          *)
(***************************************************************************)
\* transaction_failed with the error of a chunk swallowed: a batch call goes
\* on with the chunk after the one that failed
transaction_failed_NextChunk(c) ==
  /\ InTx(c)
  /\ calls' = [calls EXCEPT ![c] =
       IF IsBatchOp(c) /\ calls[c].i + ChunkSize < Len(calls[c].readings)
       THEN [@ EXCEPT !.i = @ + ChunkSize, !.j = 0, !.now = NOW, !.pc = "begun"]
       ELSE Rejected(@, "DB Error")]
  /\ UNCHANGED <<loop, NOW, clock, queries, stores, meterHistorySeq, vehicleHistorySeq, started>>

\* transaction_failed with the upsert run outside the transaction: the status
\* write of a meter reading stays when the transaction fails after it
transaction_failed_UpsertKept(c) ==
  /\ InTx(c)
  /\ calls' = [calls EXCEPT ![c] = Rejected(@, "DB Error")]
  /\ currentMeterStatus' =
       IF IsMeterOp(c) /\ calls[c].pc \in {"upserted", "inserted"}
       THEN UpsertMeter(currentMeterStatus, MapSeq(MeterHotValues, Batch(c)), calls[c].now)
       ELSE currentMeterStatus
  /\ UNCHANGED <<loop, NOW, clock, queries, meterHistory, vehicleStores, meterHistorySeq, vehicleHistorySeq, started>>

\* transaction_failed whose catch block logs the error and does not rethrow
\* it: the promise of the call resolves
transaction_failed_Swallowed(c) ==
  /\ InTx(c)
  /\ calls' = [calls EXCEPT ![c].pc = "resolved", ![c].j = 0]
  /\ UNCHANGED <<loop, NOW, clock, queries, stores, meterHistorySeq, vehicleHistorySeq, started>>

\* a storage error (connection lost, statement cancelled, commit refused) in
\* an open transaction, before the upsert, between the two statements or at
\* commit: the transaction is rolled back and the catch block rethrows
transaction_failed(c) ==
  /\ InTx(c)
  /\ calls' = [calls EXCEPT ![c] = Rejected(@, "DB Error")]
  /\ UNCHANGED <<loop, NOW, clock, queries, stores, meterHistorySeq, vehicleHistorySeq, started>>

\* the key the upsert statement of c is about to lock
NextKey(c) ==
  IF IsMeterOp(c) THEN Batch(c)[calls[c].j + 1].meterId
  ELSE Batch(c)[calls[c].j + 1].vehicleId

\* c waits for a row lock that d holds
WaitsFor(c, d) ==
  /\ c # d
  /\ calls[c].pc = "begun"
  /\ \/ IsMeterOp(c) /\ NextKey(c) \in HeldMeterKeys(d)
     \/ IsVehicleOp(c) /\ NextKey(c) \in HeldVehicleKeys(d)

\* the deadlock detector of PostgreSQL aborts one transaction of a wait cycle
deadlock_detected(c) ==
  /\ \E d \in Callers : WaitsFor(c, d) /\ WaitsFor(d, c)
  /\ calls' = [calls EXCEPT ![c] = Rejected(@, "deadlock detected")]
  /\ UNCHANGED <<loop, NOW, clock, queries, stores, meterHistorySeq, vehicleHistorySeq, started>>

Next ==
  \E c \in Callers :
    \/ \E data \in MeterInputs : ingestMeterTelemetry(c, data)
    \/ ingestMeterTelemetry_upsert(c)
    \/ ingestMeterTelemetry_insert(c)
    \/ ingestMeterTelemetry_commit(c)
    \/ \E data \in VehicleInputs : ingestVehicleTelemetry(c, data)
    \/ ingestVehicleTelemetry_upsert(c)
    \/ ingestVehicleTelemetry_insert(c)
    \/ ingestVehicleTelemetry_commit(c)
    \/ \E readings \in MeterBatchInputs : ingestMeterBatch(c, readings)
    \/ ingestMeterBatch_upsert(c)
    \/ ingestMeterBatch_insert(c)
    \/ ingestMeterBatch_commit(c)
    \/ \E readings \in VehicleBatchInputs : ingestVehicleBatch(c, readings)
    \/ ingestVehicleBatch_upsert(c)
    \/ ingestVehicleBatch_insert(c)
    \/ ingestVehicleBatch_commit(c)
    \/ transaction_failed(c)
    \/ deadlock_detected(c)

Spec == Init /\ [][Next]_vars

(***************************************************************************)
(* The chunk loop of ingestMeterBatch / ingestVehicleBatch with the chunk  *)
(* size of the source, over a batch of n readings named by their indices   *)
(* 0 .. n-1: for (let i = 0; i < readings.length; i += batchSize).         *)
(***************************************************************************)
batchSize == 1000

\* sliceRange whose end is not clamped to the length of the array
sliceRange_Unclamped(n, from, to) == [from |-> from, to |-> to]

\* the index range [from, to) that readings.slice(from, to) selects from n readings
sliceRange(n, from, to) == [from |-> Min(from, n), to |-> Min(to, n)]

LoopInit ==
  /\ currentMeterStatus = {}
  /\ meterHistory = <<>>
  /\ meterHistorySeq = 0
  /\ currentVehicleStatus = {}
  /\ vehicleHistory = <<>>
  /\ vehicleHistorySeq = 0
  /\ calls = [c \in Callers |-> NoCall]
  /\ started = 0
  /\ clock = 0
  /\ queries = [q \in Clients |-> NoQuery]
  /\ NOW = 0
  /\ \E n \in 0..MaxReadings :
       loop = [n |-> n, i |-> 0, transactions |-> 0, chunks |-> <<>>, pc |-> "loop"]

\* batchLoop_transaction whose chunks overlap by one reading: i += batchSize - 1
batchLoop_transaction_Overlap ==
  /\ loop.pc = "loop" /\ loop.i < loop.n
  /\ loop' = [loop EXCEPT !.chunks = Append(@, sliceRange(loop.n, loop.i, loop.i + batchSize)),
                          !.transactions = @ + 1,
                          !.i = @ + batchSize - 1]
  /\ UNCHANGED <<stores, meterHistorySeq, vehicleHistorySeq, calls, started, clock, queries, NOW>>

\* one iteration whose transaction commits: batch = readings.slice(i, i + batchSize),
\* await this.dataSource.transaction(...), i += batchSize
batchLoop_transaction ==
  /\ loop.pc = "loop" /\ loop.i < loop.n
  /\ loop' = [loop EXCEPT !.chunks = Append(@, sliceRange(loop.n, loop.i, loop.i + batchSize)),
                          !.transactions = @ + 1,
                          !.i = @ + batchSize]
  /\ UNCHANGED <<stores, meterHistorySeq, vehicleHistorySeq, calls, started, clock, queries, NOW>>

\* one iteration whose transaction rejects: the catch block rethrows
batchLoop_failed ==
  /\ loop.pc = "loop" /\ loop.i < loop.n
  /\ loop' = [loop EXCEPT !.transactions = @ + 1, !.pc = "rejected"]
  /\ UNCHANGED <<stores, meterHistorySeq, vehicleHistorySeq, calls, started, clock, queries, NOW>>

\* the loop test fails: the promise resolves
batchLoop_return ==
  /\ loop.pc = "loop" /\ ~(loop.i < loop.n)
  /\ loop' = [loop EXCEPT !.pc = "resolved"]
  /\ UNCHANGED <<stores, meterHistorySeq, vehicleHistorySeq, calls, started, clock, queries, NOW>>

LoopNext == batchLoop_transaction \/ batchLoop_failed \/ batchLoop_return

SpecChunk == LoopInit /\ [][LoopNext]_vars

(***************************************************************************)
(* Properties                                                              *)
(***************************************************************************)
MeterIds == { r.meterId : r \in MeterInputs }
VehicleIds == { r.vehicleId : r \in VehicleInputs }

Max(S) == CHOOSE x \in S : \A y \in S : y <= x

\* positions of the committed history rows of one device, in commit order
MeterRowsOf(d) == { k \in 1..Len(meterHistory) : meterHistory[k].meterId = d }
VehicleRowsOf(d) == { k \in 1..Len(vehicleHistory) : vehicleHistory[k].vehicleId = d }

\* the number a stored DECIMAL(p, scale) value denotes, in input units
Denoted(v, scale) == v * Pow10(InputDigits - scale)

\* a stored row holds exactly the numbers of the reading
MeterExact(row, data) ==
  /\ Denoted(row.kwhConsumedAc, 3) = data.kwhConsumedAc
  /\ Denoted(row.voltage, 2) = data.voltage

VehicleExact(row, data) ==
  /\ Denoted(row.soc, 2) = data.soc
  /\ Denoted(row.kwhDeliveredDc, 3) = data.kwhDeliveredDc
  /\ IF "batteryTemp" \in DOMAIN data
     THEN row.batteryTemp # <<>> /\ Denoted(row.batteryTemp[1], 2) = data.batteryTemp
     ELSE row.batteryTemp = <<>>

\* a stored row holds the numbers of the reading rounded to the column scale
MeterRounded(row, data) ==
  /\ row.kwhConsumedAc = Decimal(data.kwhConsumedAc, 3)
  /\ row.voltage = Decimal(data.voltage, 2)

VehicleRounded(row, data) ==
  /\ row.soc = Decimal(data.soc, 2)
  /\ row.kwhDeliveredDc = Decimal(data.kwhDeliveredDc, 3)
  /\ IF "batteryTemp" \in DOMAIN data
     THEN row.batteryTemp = <<Decimal(data.batteryTemp, 2)>>
     ELSE row.batteryTemp = <<>>

\* the step in which the transaction of a single-reading call commits
MeterSingleCommits(c) ==
  /\ calls[c].op = "ingestMeterTelemetry"
  /\ calls[c].pc = "inserted" /\ calls'[c].pc = "resolved"

VehicleSingleCommits(c) ==
  /\ calls[c].op = "ingestVehicleTelemetry"
  /\ calls[c].pc = "inserted" /\ calls'[c].pc = "resolved"

\* the step wrote one history row and the status row of the reading's meter;
\* Same(row, data) says how the stored numbers relate to the reading's
MeterWritten(c, Same(_, _)) ==
  LET data == calls[c].readings[1]
      n == Len(meterHistory)
  IN  /\ Len(meterHistory') = n + 1
      /\ SubSeq(meterHistory', 1, n) = meterHistory
      /\ meterHistory'[n + 1].meterId = data.meterId
      /\ meterHistory'[n + 1].timestamp = NewDate(data.timestamp)
      /\ Same(meterHistory'[n + 1], data)
      /\ Cardinality({ r \in currentMeterStatus' : r.meterId = data.meterId }) = 1
      /\ \A r \in currentMeterStatus' :
           r.meterId = data.meterId =>
             Same(r, data) /\ r.lastUpdateTimestamp = NewDate(data.timestamp)

VehicleWritten(c, Same(_, _)) ==
  LET data == calls[c].readings[1]
      n == Len(vehicleHistory)
  IN  /\ Len(vehicleHistory') = n + 1
      /\ SubSeq(vehicleHistory', 1, n) = vehicleHistory
      /\ vehicleHistory'[n + 1].vehicleId = data.vehicleId
      /\ vehicleHistory'[n + 1].timestamp = NewDate(data.timestamp)
      /\ Same(vehicleHistory'[n + 1], data)
      /\ Cardinality({ r \in currentVehicleStatus' : r.vehicleId = data.vehicleId }) = 1
      /\ \A r \in currentVehicleStatus' :
           r.vehicleId = data.vehicleId =>
             Same(r, data) /\ r.lastUpdateTimestamp = NewDate(data.timestamp)

\* within a transaction the history insert runs after the upsert has run,
\* and the stores change only in the step that commits a transaction
UpsertThenInsert ==
  /\ \A c \in Callers :
       (calls[c].pc # "inserted" /\ calls'[c].pc = "inserted") =>
         (calls[c].pc = "upserted" /\ calls[c].j = Len(Batch(c)))
  /\ stores' # stores =>
       \E c \in Callers : calls[c].pc = "inserted" /\ calls'[c].pc # "inserted"

\* C1 (as stated): when a single-reading call succeeds, exactly one new
\* history row holds the reading's exact field values and timestamp, the
\* status row of its device holds those exact values with lastUpdateTimestamp
\* equal to the reading's timestamp, and one transaction wrote both, upsert
\* first and history insert second.
C1_ExactValuesWritten ==
  [][ /\ \A c \in Callers :
           /\ MeterSingleCommits(c) => MeterWritten(c, MeterExact)
           /\ VehicleSingleCommits(c) => VehicleWritten(c, VehicleExact)
      /\ UpsertThenInsert ]_vars

\* C1 (amended): as C1, with the stored numbers being the reading's numbers
\* rounded to the scale of their DECIMAL column (energy 3 places; voltage,
\* soc and battery temperature 2 places).
C1_RoundedValuesWritten ==
  [][ /\ \A c \in Callers :
           /\ MeterSingleCommits(c) => MeterWritten(c, MeterRounded)
           /\ VehicleSingleCommits(c) => VehicleWritten(c, VehicleRounded)
      /\ UpsertThenInsert ]_vars

\* a single-reading call has succeeded with a reading that carries more
\* fractional digits than its columns keep, and its history row is committed
C1_Witness ==
  \E c \in Callers :
    /\ calls[c].op = "ingestMeterTelemetry" /\ calls[c].pc = "resolved"
    /\ calls[c].readings = <<mB>>
    /\ \E k \in 1..Len(meterHistory) :
         /\ meterHistory[k].id = calls[c].insertedIds[1]
         /\ MeterRounded(meterHistory[k], mB)
         /\ ~MeterExact(meterHistory[k], mB)

\* the committed stores agree per device: a device has a status row exactly
\* when it has history rows, and its status row holds the values of one of them
MeterStoresAgree ==
  \A d \in MeterIds :
    /\ (\E r \in currentMeterStatus : r.meterId = d) <=> MeterRowsOf(d) # {}
    /\ \A r \in currentMeterStatus :
         r.meterId = d =>
           \E k \in MeterRowsOf(d) :
             /\ meterHistory[k].kwhConsumedAc = r.kwhConsumedAc
             /\ meterHistory[k].voltage = r.voltage
             /\ meterHistory[k].timestamp = r.lastUpdateTimestamp

VehicleStoresAgree ==
  \A d \in VehicleIds :
    /\ (\E r \in currentVehicleStatus : r.vehicleId = d) <=> VehicleRowsOf(d) # {}
    /\ \A r \in currentVehicleStatus :
         r.vehicleId = d =>
           \E k \in VehicleRowsOf(d) :
             /\ vehicleHistory[k].soc = r.soc
             /\ vehicleHistory[k].kwhDeliveredDc = r.kwhDeliveredDc
             /\ vehicleHistory[k].batteryTemp = r.batteryTemp
             /\ vehicleHistory[k].timestamp = r.lastUpdateTimestamp

IsSingleOp(c) == calls[c].op \in {"ingestMeterTelemetry", "ingestVehicleTelemetry"}

\* C2: a single-reading call that reports failure -- before the upsert,
\* between the upsert and the history insert, at commit, or for a missing
\* partition -- changes neither the State Store nor the History Store, and
\* in every committed state no reading is recorded in exactly one store.
C2_FailureChangesNothing ==
  /\ [][ \A c \in Callers :
           (IsSingleOp(c) /\ calls[c].pc # "rejected" /\ calls'[c].pc = "rejected")
             => stores' = stores ]_vars
  /\ [](MeterStoresAgree /\ VehicleStoresAgree)

\* a single-reading call failed after its upsert and history insert had run,
\* and its device is in neither store
C2_Witness ==
  \E c \in Callers :
    /\ calls[c].op = "ingestMeterTelemetry" /\ calls[c].pc = "rejected"
    /\ calls[c].error = "DB Error"
    /\ meterHistorySeq > Len(meterHistory)
    /\ \A r \in currentMeterStatus : r.meterId # calls[c].readings[1].meterId
    /\ MeterRowsOf(calls[c].readings[1].meterId) = {}

\* the step in which the transaction of one chunk of a batch call commits
MeterBatchCommits(c) ==
  /\ calls[c].op = "ingestMeterBatch"
  /\ calls[c].pc = "inserted" /\ calls'[c].pc \in {"begun", "resolved"}

VehicleBatchCommits(c) ==
  /\ calls[c].op = "ingestVehicleBatch"
  /\ calls[c].pc = "inserted" /\ calls'[c].pc \in {"begun", "resolved"}

\* the ids a call has committed are distinct ids of rows of the history table
IdsIn(ids, history) ==
  /\ \A p, q \in 1..Len(ids) : p # q => ids[p] # ids[q]
  /\ \A p \in 1..Len(ids) :
       Cardinality({ k \in 1..Len(history) : history[k].id = ids[p] }) = 1

\* C3: the history rows of a device are never removed; the commit of a
\* single-reading call adds exactly one history row and the commit of a
\* chunk adds one row per reading of the chunk, so that a call that has
\* succeeded has added exactly one row, or exactly the batch size.
C3_HistoryGrowsByCallSize ==
  /\ [][ /\ Len(meterHistory') >= Len(meterHistory)
         /\ SubSeq(meterHistory', 1, Len(meterHistory)) = meterHistory
         /\ Len(vehicleHistory') >= Len(vehicleHistory)
         /\ SubSeq(vehicleHistory', 1, Len(vehicleHistory)) = vehicleHistory
         /\ \A c \in Callers :
              /\ MeterSingleCommits(c) => Len(meterHistory') = Len(meterHistory) + 1
              /\ VehicleSingleCommits(c) => Len(vehicleHistory') = Len(vehicleHistory) + 1
              /\ MeterBatchCommits(c) =>
                   Len(meterHistory') = Len(meterHistory) + Len(Batch(c))
              /\ VehicleBatchCommits(c) =>
                   Len(vehicleHistory') = Len(vehicleHistory) + Len(Batch(c)) ]_vars
  /\ [](\A c \in Callers :
          calls[c].pc = "resolved" =>
            /\ Len(calls[c].insertedIds) = Len(calls[c].readings)
            /\ IsMeterOp(c) => IdsIn(calls[c].insertedIds, meterHistory)
            /\ IsVehicleOp(c) => IdsIn(calls[c].insertedIds, vehicleHistory))

\* a batch call that spans two chunks has succeeded and the history holds
\* one row for each of its readings
C3_Witness ==
  \E c \in Callers :
    /\ calls[c].op = "ingestMeterBatch" /\ calls[c].pc = "resolved"
    /\ Len(calls[c].readings) > ChunkSize
    /\ Len(calls[c].insertedIds) = Len(calls[c].readings)
    /\ Len(meterHistory) >= Len(calls[c].readings)

\* C4: every device that has had a reading applied has exactly one status
\* row, and its lastUpdateTimestamp is the timestamp of the reading applied
\* last for that device.
C4_OneStatusRowPerDevice ==
  /\ \A d \in MeterIds :
       MeterRowsOf(d) # {} =>
         /\ Cardinality({ r \in currentMeterStatus : r.meterId = d }) = 1
         /\ \A r \in currentMeterStatus :
              r.meterId = d =>
                r.lastUpdateTimestamp = meterHistory[Max(MeterRowsOf(d))].timestamp
  /\ \A d \in VehicleIds :
       VehicleRowsOf(d) # {} =>
         /\ Cardinality({ r \in currentVehicleStatus : r.vehicleId = d }) = 1
         /\ \A r \in currentVehicleStatus :
              r.vehicleId = d =>
                r.lastUpdateTimestamp = vehicleHistory[Max(VehicleRowsOf(d))].timestamp

\* a meter has had three readings applied and has one status row
C4_Witness ==
  \E d \in MeterIds :
    /\ Cardinality(MeterRowsOf(d)) = 3
    /\ Cardinality({ r \in currentMeterStatus : r.meterId = d }) = 1

\* C5: when a single reading B commits for a device whose status row holds a
\* later timestamp t1 (that of reading A, applied before), the status row
\* then holds B's stored values and B's earlier timestamp, and the history
\* holds A's row followed by B's row.
C5_LastAppliedWins ==
  [][ \A c \in Callers :
        MeterSingleCommits(c) =>
          LET B == calls[c].readings[1]
          IN  \A a \in currentMeterStatus :
                (a.meterId = B.meterId /\ NewDate(B.timestamp) < a.lastUpdateTimestamp) =>
                  /\ \A r \in currentMeterStatus' :
                       r.meterId = B.meterId =>
                         /\ MeterRounded(r, B)
                         /\ r.lastUpdateTimestamp = NewDate(B.timestamp)
                  /\ \E r \in currentMeterStatus' : r.meterId = B.meterId
                  /\ \E p \in 1..Len(meterHistory) :
                       /\ meterHistory'[p].meterId = a.meterId
                       /\ meterHistory'[p].timestamp = a.lastUpdateTimestamp
                       /\ meterHistory'[p].kwhConsumedAc = a.kwhConsumedAc
                       /\ meterHistory'[p].voltage = a.voltage
                  /\ Len(meterHistory') = Len(meterHistory) + 1
                  /\ MeterRounded(meterHistory'[Len(meterHistory')], B)
                  /\ meterHistory'[Len(meterHistory')].timestamp = NewDate(B.timestamp) ]_vars

\* reading mA (10:00Z) was applied, then reading mB (08:00Z) of the same
\* meter by a single-reading call: the status row has gone back to 08:00Z
C5_Witness ==
  \E c \in Callers :
    /\ calls[c].op = "ingestMeterTelemetry" /\ calls[c].pc = "resolved"
    /\ calls[c].readings = <<mB>>
    /\ Len(meterHistory) >= 2
    /\ meterHistory[Len(meterHistory)].id = calls[c].insertedIds[1]
    /\ meterHistory[Len(meterHistory) - 1].meterId = mA.meterId
    /\ meterHistory[Len(meterHistory) - 1].timestamp = NewDate(mA.timestamp)
    /\ \E r \in currentMeterStatus :
         r.meterId = mB.meterId /\ r.lastUpdateTimestamp = NewDate(mB.timestamp)

\* errors a transaction gets because of another transaction
ConflictErrors ==
  { "deadlock detected",
    "could not serialize access due to concurrent update",
    "ON CONFLICT DO UPDATE command cannot affect row a second time" }

\* C6: single-reading calls for one device that run at the same time never
\* fail because of each other and never wait for each other in a cycle;
\* when two of them have succeeded, the history holds a row for each and the
\* one status row of the device holds the values of the row committed last,
\* whichever reading has the later timestamp.
C6_ConcurrentSinglesLastCommitWins ==
  /\ \A c \in Callers :
       IsSingleOp(c) =>
         /\ calls[c].error \notin ConflictErrors
         /\ \A d \in Callers : ~(WaitsFor(c, d) /\ WaitsFor(d, c))
  /\ \A c, d \in Callers :
       ( /\ c # d
         /\ calls[c].op = "ingestMeterTelemetry" /\ calls[c].pc = "resolved"
         /\ calls[d].op = "ingestMeterTelemetry" /\ calls[d].pc = "resolved"
         /\ calls[c].readings[1].meterId = calls[d].readings[1].meterId ) =>
         LET id == calls[c].readings[1].meterId
             last == meterHistory[Max(MeterRowsOf(id))]
         IN  /\ IdsIn(calls[c].insertedIds \o calls[d].insertedIds, meterHistory)
             /\ last.id \in {calls[c].insertedIds[1], calls[d].insertedIds[1]}
             /\ Cardinality({ r \in currentMeterStatus : r.meterId = id }) = 1
             /\ \A r \in currentMeterStatus :
                  r.meterId = id =>
                    /\ r.kwhConsumedAc = last.kwhConsumedAc
                    /\ r.voltage = last.voltage
                    /\ r.lastUpdateTimestamp = last.timestamp

\* two single-reading calls for METER_001 have both succeeded; the reading
\* with the earlier timestamp committed last and its values are the status
C6_Witness ==
  \E c, d \in Callers :
    /\ c # d
    /\ calls[c].op = "ingestMeterTelemetry" /\ calls[c].pc = "resolved"
    /\ calls[d].op = "ingestMeterTelemetry" /\ calls[d].pc = "resolved"
    /\ calls[c].readings = <<mA>> /\ calls[d].readings = <<mB>>
    /\ meterHistory[Len(meterHistory)].id = calls[d].insertedIds[1]
    /\ \E r \in currentMeterStatus :
         /\ r.meterId = mB.meterId /\ MeterRounded(r, mB)
         /\ r.lastUpdateTimestamp = NewDate(mB.timestamp)
         /\ r.lastUpdateTimestamp < NewDate(mA.timestamp)

CeilDiv(n, d) == (n + d - 1) \div d

\* C7: a batch call over n readings whose transactions all commit performs
\* exactly ceil(n / 1000) transactions (3 for 2500 readings, 1 for 100, 0
\* for none); the chunks are non-empty runs of consecutive readings in input
\* order, of at most 1000 readings, and every reading is in exactly one chunk.
C7_CeilChunks ==
  loop.pc = "resolved" =>
    /\ loop.transactions = CeilDiv(loop.n, 1000)
    /\ loop.n = 2500 => loop.transactions = 3
    /\ loop.n = 100 => loop.transactions = 1
    /\ loop.n = 0 => loop.transactions = 0
    /\ Len(loop.chunks) = loop.transactions
    /\ \A k \in 1..Len(loop.chunks) :
         /\ loop.chunks[k].from < loop.chunks[k].to
         /\ loop.chunks[k].to - loop.chunks[k].from <= 1000
         /\ loop.chunks[k].from = IF k = 1 THEN 0 ELSE loop.chunks[k - 1].to
    /\ loop.n > 0 => loop.chunks[Len(loop.chunks)].to = loop.n

\* a batch of 2500 readings has been ingested in three transactions
C7_Witness ==
  /\ loop.pc = "resolved" /\ loop.n = 2500 /\ loop.transactions = 3
  /\ loop.chunks = << [from |-> 0, to |-> 1000], [from |-> 1000, to |-> 2000],
                      [from |-> 2000, to |-> 2500] >>

\* the history row with a given id
RowWithId(history, id) ==
  CHOOSE r \in { history[k] : k \in 1..Len(history) } : r.id = id

Response(c) ==
  IF calls[c].pc = "resolved"
  THEN IF IsBatchOp(c)
       THEN [status |-> "accepted", count |-> Len(calls[c].readings)]
       ELSE [status |-> "accepted", count |-> 1]
  ELSE IF calls[c].pc = "rejected"
       THEN [status |-> "error", message |-> calls[c].error]
       ELSE [status |-> "pending"]

\* C9: the result of a failed batch call tells the caller how many chunks
\* were committed and which chunk failed: two failed calls with the same
\* request and the same result have committed the same number of chunks.
C9_PartialProgressReported ==
  \A c, d \in Callers :
    ( /\ IsBatchOp(c) /\ calls[c].pc = "rejected"
      /\ IsBatchOp(d) /\ calls[d].pc = "rejected"
      /\ calls[c].op = calls[d].op
      /\ calls[c].readings = calls[d].readings
      /\ Response(c) = Response(d) ) =>
      calls[c].i = calls[d].i

\* true when a chunk names one device more than once
HasRepeatedMeter(batch) ==
  \E p, q \in 1..Len(batch) : p < q /\ batch[p].meterId = batch[q].meterId

HasRepeatedVehicle(batch) ==
  \E p, q \in 1..Len(batch) : p < q /\ batch[p].vehicleId = batch[q].vehicleId

\* C10: the bulk upsert of a chunk that holds several readings of one device
\* succeeds (its transaction does not fail because of the repetition), the
\* status row then holds the last such reading of the chunk and the history
\* one row per reading.
C10_RepeatedDeviceInChunk ==
  /\ \A c \in Callers :
       IsBatchOp(c) =>
         calls[c].error # "ON CONFLICT DO UPDATE command cannot affect row a second time"
  /\ \A c \in Callers :
       ( /\ calls[c].op = "ingestMeterBatch" /\ calls[c].pc = "resolved"
         /\ HasRepeatedMeter(calls[c].readings) ) =>
         Len(calls[c].insertedIds) = Len(calls[c].readings)

\* the history rows with the ids a call has committed are the rows of the
\* first Len(ids) readings of the call, in input order
MeterReadingsCommitted(c) ==
  /\ IdsIn(calls[c].insertedIds, meterHistory)
  /\ \A p \in 1..Len(calls[c].insertedIds) :
       LET row == RowWithId(meterHistory, calls[c].insertedIds[p])
       IN  /\ row.meterId = calls[c].readings[p].meterId
           /\ row.timestamp = NewDate(calls[c].readings[p].timestamp)
           /\ MeterRounded(row, calls[c].readings[p])

VehicleReadingsCommitted(c) ==
  /\ IdsIn(calls[c].insertedIds, vehicleHistory)
  /\ \A p \in 1..Len(calls[c].insertedIds) :
       LET row == RowWithId(vehicleHistory, calls[c].insertedIds[p])
       IN  /\ row.vehicleId = calls[c].readings[p].vehicleId
           /\ row.timestamp = NewDate(calls[c].readings[p].timestamp)
           /\ VehicleRounded(row, calls[c].readings[p])

\* C11: no reading is silently dropped.  A call that is answered 'accepted'
\* has committed a history row for every one of its readings (count is the
\* number of readings of a batch); a call whose transaction ends without a
\* commit is rejected with the storage error; the acknowledgement is never
\* given for a call one of whose transactions did not commit.
C11_AcceptedOrThrown ==
  /\ [](\A c \in Callers :
          /\ Response(c).status = "accepted" =>
               /\ calls[c].pc = "resolved"
               /\ Response(c).count = Len(calls[c].readings)
               /\ Len(calls[c].insertedIds) = Len(calls[c].readings)
               /\ IsMeterOp(c) => MeterReadingsCommitted(c)
               /\ IsVehicleOp(c) => VehicleReadingsCommitted(c)
          /\ calls[c].pc = "rejected" =>
               /\ Response(c).status = "error"
               /\ Response(c).message = calls[c].error
               /\ calls[c].error # "none"
               /\ Len(calls[c].insertedIds) < Len(calls[c].readings))
  /\ [][ \A c \in Callers :
           (InTx(c) /\ (calls'[c].pc \in {"resolved", "rejected"} \/ calls'[c].i # calls[c].i)) =>
             \/ /\ calls'[c].pc = "rejected" /\ calls'[c].error # "none"
                /\ calls'[c].insertedIds = calls[c].insertedIds
                /\ stores' = stores
             \/ /\ calls[c].pc = "inserted" /\ calls'[c].pc \in {"begun", "resolved"}
                /\ Len(calls'[c].insertedIds) = Len(calls[c].insertedIds) + Len(Batch(c)) ]_vars

\* one batch call that spans two chunks was answered 'accepted' with count 3
\* and all its rows are in the history, another was rejected in its second
\* chunk with the storage error
C11_Witness ==
  \E c, d \in Callers :
    /\ calls[c].op = "ingestMeterBatch" /\ Response(c) = [status |-> "accepted", count |-> 3]
    /\ MeterReadingsCommitted(c)
    /\ calls[d].op = "ingestVehicleBatch"
    /\ Response(d) = [status |-> "error", message |-> "DB Error"]
    /\ calls[d].i = ChunkSize

\* the answer of the HTTP endpoint: 202 with the acknowledgement of the
\* controller, or, for an exception that is not an HttpException and with no
\* exception filter registered, the answer of the built-in exceptions layer
HttpResponse(c) ==
  IF calls[c].pc = "resolved"
  THEN [statusCode |-> 202, body |-> Response(c)]
  ELSE IF calls[c].pc = "rejected"
       THEN [statusCode |-> 500, body |-> [message |-> "Internal server error"]]
       ELSE [statusCode |-> 0, body |-> Response(c)]

\* C12: a write that fails because no partition covers the reading's
\* timestamp has an outcome distinct from that of a write that fails for a
\* transient storage error, so that the caller can tell them apart.
C12_MissingPartitionDistinct ==
  \A c, d \in Callers :
    ( /\ calls[c].pc = "rejected"
      /\ calls[c].error = "no partition of relation found for row"
      /\ calls[d].pc = "rejected"
      /\ calls[d].error = "DB Error" ) =>
      HttpResponse(c) # HttpResponse(d)

(***************************************************************************)
(* AnalyticsService: the two SELECT statements of a performance request    *)
(* and the report computed from them.  A SELECT sees the rows committed    *)
(* when it runs; the two statements of a request are not in a transaction. *)
(*                                                                         *)
(* A JavaScript number that holds an energy is an integer count of         *)
(* 10^-3 kWh, one that holds a temperature an integer count of 10^-2       *)
(* degrees, and a quotient is the exact fraction [num, den].  The IEEE 754 *)
(* rounding of a quotient (one unit in the 16th significant digit) is      *)
(* below the resolution of the model: it decides a comparison with a       *)
(* threshold only when the exact quotient is the threshold and an operand  *)
(* has no exact binary representation (0.119 / 0.14 evaluates to           *)
(* 0.8499999999999999), which is the case for none of the inputs below.    *)
(***************************************************************************)
\* values new Date() returns to the analytics service, in hours
Instants == {10, 32, 34, 60}

\* vehicle ids of requests; VEHICLE_404 never sends a reading
QueryVehicleIds == {"VEHICLE_001", "VEHICLE_002", "VEHICLE_404"}

\* the meterId query parameter: absent, empty, or a meter id
QueryMeterIds == { <<>>, <<"">>, <<"METER_001">>, <<"METER_002">> }

\* if (meterId): undefined and the empty string are falsy
Truthy(meterId) == meterId # <<>> /\ meterId[1] # ""

\* WHERE timestamp >= from AND timestamp <= to
Between(history, from, to) ==
  SelectSeq(history, LAMBDA r : r.timestamp >= from /\ r.timestamp <= to)

RECURSIVE SumOf(_, _)
SumOf(rows, col) ==
  IF rows = <<>> THEN 0 ELSE Head(rows)[col] + SumOf(Tail(rows), col)

\* SUM(col) over the selected rows: NULL when there is no row
SUM(rows, col) == IF rows = <<>> THEN <<>> ELSE <<SumOf(rows, col)>>

RECURSIVE SumOfNullable(_, _)
SumOfNullable(rows, col) ==
  IF rows = <<>> THEN 0 ELSE Head(rows)[col][1] + SumOfNullable(Tail(rows), col)

\* AVG(col) over the selected rows: the mean of the values that are not
\* NULL, as a fraction of column units; NULL when there is no such value
AVG(rows, col) ==
  LET vals == SelectSeq(rows, LAMBDA r : r[col] # <<>>)
  IN  IF vals = <<>> THEN <<>>
      ELSE <<[num |-> SumOfNullable(vals, col), den |-> Len(vals)]>>

MinTimestamp(rows) ==
  CHOOSE t \in { rows[k].timestamp : k \in 1..Len(rows) } :
    \A k \in 1..Len(rows) : t <= rows[k].timestamp

MaxTimestamp(rows) ==
  CHOOSE t \in { rows[k].timestamp : k \in 1..Len(rows) } :
    \A k \in 1..Len(rows) : t >= rows[k].timestamp

\* vehicleDataQuery without the two timestamp conditions
vehicleDataQuery_AllTime(history, vehicleId, from, to) ==
  LET rows == SelectSeq(history, LAMBDA r : r.vehicleId = vehicleId)
  IN  IF rows = <<>> THEN <<>>
      ELSE << [vehicle_id |-> vehicleId,
               reading_count |-> Len(rows),
               total_kwh_delivered_dc |-> SUM(rows, "kwhDeliveredDc"),
               avg_battery_temp |-> AVG(rows, "batteryTemp"),
               period_start |-> MinTimestamp(rows),
               period_end |-> MaxTimestamp(rows)] >>

\* SELECT vehicle_id, COUNT(*), SUM(kwh_delivered_dc), AVG(battery_temp),
\* MIN(timestamp), MAX(timestamp) FROM vehicle_telemetry_history
\* WHERE vehicle_id = $1 AND timestamp >= $2 AND timestamp <= $3
\* GROUP BY vehicle_id: one row per group, no row when nothing is selected
vehicleDataQuery(history, vehicleId, from, to) ==
  LET rows == SelectSeq(Between(history, from, to), LAMBDA r : r.vehicleId = vehicleId)
  IN  IF rows = <<>> THEN <<>>
      ELSE << [vehicle_id |-> vehicleId,
               reading_count |-> Len(rows),
               total_kwh_delivered_dc |-> SUM(rows, "kwhDeliveredDc"),
               avg_battery_temp |-> AVG(rows, "batteryTemp"),
               period_start |-> MinTimestamp(rows),
               period_end |-> MaxTimestamp(rows)] >>

\* meterDataQuery without the lower timestamp bound
meterDataQuery_NoLowerBound(history, from, to, meterId) ==
  LET inWindow == SelectSeq(history, LAMBDA r : r.timestamp <= to)
      rows == IF Truthy(meterId)
              THEN SelectSeq(inWindow, LAMBDA r : r.meterId = meterId[1])
              ELSE inWindow
  IN  << [total_kwh_consumed_ac |-> SUM(rows, "kwhConsumedAc")] >>

\* SELECT SUM(kwh_consumed_ac) FROM meter_telemetry_history
\* WHERE timestamp >= $1 AND timestamp <= $2 [AND meter_id = $3]:
\* always one row
meterDataQuery(history, from, to, meterId) ==
  LET inWindow == Between(history, from, to)
      rows == IF Truthy(meterId)
              THEN SelectSeq(inWindow, LAMBDA r : r.meterId = meterId[1])
              ELSE inWindow
  IN  << [total_kwh_consumed_ac |-> SUM(rows, "kwhConsumedAc")] >>

\* parseFloat(x) || 0 of a nullable numeric: NaN for NULL, hence 0
parseFloatOr0(x) == IF x = <<>> THEN 0 ELSE x[1]

\* the quotient and remainder of n * 10^k by d, by long division
RECURSIVE LongDiv(_, _, _)
LongDiv(n, d, k) ==
  IF k = 0 THEN [q |-> n \div d, r |-> n % d]
  ELSE LET p == LongDiv(n, d, k - 1)
       IN  [q |-> 10 * p.q + (10 * p.r) \div d, r |-> (10 * p.r) % d]

\* parseFloat(x.toFixed(digits)) of the fraction x, as a count of
\* 10^-digits: the nearest such count, the larger one of two equally near,
\* the sign of a negative number put back after rounding
toFixed(x, digits) ==
  LET a == IF x.num < 0 THEN 0 - x.num ELSE x.num
      p == LongDiv(a, x.den, digits)
      n == IF 2 * p.r >= x.den THEN p.q + 1 ELSE p.q
  IN  IF x.num < 0 THEN 0 - n ELSE n

\* x >= the decimal literal num / den
AtLeast(x, num, den) == x.num * den >= num * x.den

\* efficiencyRatio that reports 1 when there is no source energy
efficiencyRatio_DefaultOne(totalKwhDeliveredDc, totalKwhConsumedAc) ==
  IF totalKwhConsumedAc > 0
  THEN [num |-> totalKwhDeliveredDc, den |-> totalKwhConsumedAc]
  ELSE [num |-> 1, den |-> 1]

\* totalKwhConsumedAc > 0 ? totalKwhDeliveredDc / totalKwhConsumedAc : 0
efficiencyRatio(totalKwhDeliveredDc, totalKwhConsumedAc) ==
  IF totalKwhConsumedAc > 0
  THEN [num |-> totalKwhDeliveredDc, den |-> totalKwhConsumedAc]
  ELSE [num |-> 0, den |-> 1]

\* healthStatus whose first band is open at 0.85: ratio > 0.85 is healthy
healthStatus_Strict(ratio) ==
  IF ratio.num * 100 > 85 * ratio.den THEN "healthy"
  ELSE IF AtLeast(ratio, 75, 100) THEN "degraded"
  ELSE "critical"

\* the if / else if / else chain on efficiencyRatio
healthStatus(ratio) ==
  IF AtLeast(ratio, 85, 100) THEN "healthy"
  ELSE IF AtLeast(ratio, 75, 100) THEN "degraded"
  ELSE "critical"

\* const result: PerformanceAnalyticsDto = {...}; energies in 10^-3 kWh,
\* efficiencyRatio in 10^-4, avgBatteryTemp in 10^-2 degrees
PerformanceAnalyticsDto(vehicleId, vehicleStats, meterData) ==
  LET totalKwhConsumedAc == parseFloatOr0(meterData[1].total_kwh_consumed_ac)
      totalKwhDeliveredDc == parseFloatOr0(vehicleStats.total_kwh_delivered_dc)
      ratio == efficiencyRatio(totalKwhDeliveredDc, totalKwhConsumedAc)
      avg == IF vehicleStats.avg_battery_temp = <<>>
             THEN [num |-> 0, den |-> 1]
             ELSE [num |-> vehicleStats.avg_battery_temp[1].num,
                   den |-> 100 * vehicleStats.avg_battery_temp[1].den]
  IN  [vehicleId |-> vehicleId,
       periodStart |-> vehicleStats.period_start,
       periodEnd |-> vehicleStats.period_end,
       totalKwhConsumedAc |-> toFixed([num |-> totalKwhConsumedAc, den |-> 1000], 3),
       totalKwhDeliveredDc |-> toFixed([num |-> totalKwhDeliveredDc, den |-> 1000], 3),
       efficiencyRatio |-> toFixed(ratio, 4),
       avgBatteryTemp |-> toFixed(avg, 2),
       readingCount |-> vehicleStats.reading_count,
       healthStatus |-> healthStatus(ratio)]

(***************************************************************************)
(* GET v1/analytics/performance/:vehicleId?meterId=                        *)
(***************************************************************************)
\* AnalyticsController.getPerformance routes the request (each client sends
\* one); the service method reads the clock: now = new Date(),
\* twentyFourHoursAgo = now - 24 h
getPerformance(q, vehicleId, meterId) ==
  /\ queries[q].pc = "idle"
  /\ \E t \in Instants :
       /\ t >= clock
       /\ clock' = t
       /\ queries' = [queries EXCEPT ![q] =
            [NoQuery EXCEPT
               !.op = IF Truthy(meterId) THEN "getVehiclePerformanceWithMeter"
                      ELSE "getVehiclePerformance24h",
               !.vehicleId = vehicleId,
               !.meterId = meterId,
               !.now = t, !.twentyFourHoursAgo = t - 24,
               !.pc = "vehicleData"]]
  /\ UNCHANGED <<loop, NOW, stores, meterHistorySeq, vehicleHistorySeq, calls, started>>

\* getVehiclePerformance24h_vehicleData that records the request as a row of
\* the vehicle history
getVehiclePerformance24h_vehicleData_Audited(q) ==
  /\ queries[q].op = "getVehiclePerformance24h" /\ queries[q].pc = "vehicleData"
  /\ LET vehicleData == vehicleDataQuery(vehicleHistory, queries[q].vehicleId,
                          queries[q].twentyFourHoursAgo, queries[q].now)
     IN  queries' = [queries EXCEPT ![q] =
           IF Len(vehicleData) = 0
           THEN [@ EXCEPT !.pc = "rejected", !.error = "NotFoundException",
                          !.read = <<Len(vehicleHistory), 0>>]
           ELSE [@ EXCEPT !.pc = "meterData", !.vehicleData = vehicleData,
                          !.read = <<Len(vehicleHistory), 0>>]]
  /\ vehicleHistory' = Append(vehicleHistory,
       [id |-> vehicleHistorySeq + 1, vehicleId |-> queries[q].vehicleId, soc |-> 0,
        kwhDeliveredDc |-> 0, batteryTemp |-> <<>>, timestamp |-> queries[q].now,
        status |-> "valid"])
  /\ vehicleHistorySeq' = vehicleHistorySeq + 1
  /\ UNCHANGED <<loop, NOW, clock, meterStores, currentVehicleStatus, meterHistorySeq, calls, started>>

\* getVehiclePerformance24h: the vehicle SELECT and the check of its result; NotFoundException
\* when no row comes back
\* getVehiclePerformance24h_vehicleData whose SELECT also sees the
\* rows that open transactions have inserted and not committed
getVehiclePerformance24h_vehicleData_Dirty(q) ==
  /\ queries[q].op = "getVehiclePerformance24h" /\ queries[q].pc = "vehicleData"
  /\ LET uncommitted(c) ==
           IF calls[c].pc = "inserted" /\ IsVehicleOp(c)
           THEN InsertVehicleHistory(MapSeq(VehicleColdValues, Batch(c)), calls[c].firstId, calls[c].now)
           ELSE <<>>
         vehicleData == vehicleDataQuery(vehicleHistory \o uncommitted("c1") \o uncommitted("c2"),
                          queries[q].vehicleId,
                          queries[q].twentyFourHoursAgo, queries[q].now)
     IN  queries' = [queries EXCEPT ![q] =
           IF Len(vehicleData) = 0
           THEN [@ EXCEPT !.pc = "rejected", !.error = "NotFoundException",
                          !.read = <<Len(vehicleHistory), 0>>]
           ELSE [@ EXCEPT !.pc = "meterData", !.vehicleData = vehicleData,
                          !.read = <<Len(vehicleHistory), 0>>]]
  /\ UNCHANGED <<loop, NOW, clock, stores, meterHistorySeq, vehicleHistorySeq, calls, started>>

\* getVehiclePerformanceWithMeter: the vehicle SELECT and the check of its result; NotFoundException
\* when no row comes back
getVehiclePerformance24h_vehicleData(q) ==
  /\ queries[q].op = "getVehiclePerformance24h" /\ queries[q].pc = "vehicleData"
  /\ LET vehicleData == vehicleDataQuery(vehicleHistory, queries[q].vehicleId,
                          queries[q].twentyFourHoursAgo, queries[q].now)
     IN  queries' = [queries EXCEPT ![q] =
           IF Len(vehicleData) = 0
           THEN [@ EXCEPT !.pc = "rejected", !.error = "NotFoundException",
                          !.read = <<Len(vehicleHistory), 0>>]
           ELSE [@ EXCEPT !.pc = "meterData", !.vehicleData = vehicleData,
                          !.read = <<Len(vehicleHistory), 0>>]]
  /\ UNCHANGED <<loop, NOW, clock, stores, meterHistorySeq, vehicleHistorySeq, calls, started>>

\* getVehiclePerformance24h_meterData that treats a meter SELECT without
\* data like a vehicle SELECT without data: NotFoundException
getVehiclePerformance24h_meterData_NotFound(q) ==
  /\ queries[q].op = "getVehiclePerformance24h" /\ queries[q].pc = "meterData"
  /\ LET meterData == meterDataQuery(meterHistory, queries[q].twentyFourHoursAgo,
                        queries[q].now, <<>>)
         vehicleStats == queries[q].vehicleData[1]
     IN  queries' = [queries EXCEPT ![q] =
           IF meterData[1].total_kwh_consumed_ac = <<>>
           THEN [@ EXCEPT !.pc = "rejected", !.error = "NotFoundException",
                          !.read = <<queries[q].read[1], Len(meterHistory)>>]
           ELSE [@ EXCEPT !.pc = "resolved",
                     !.read = <<queries[q].read[1], Len(meterHistory)>>,
                     !.efficiencyRatio =
                       efficiencyRatio(parseFloatOr0(vehicleStats.total_kwh_delivered_dc),
                                       parseFloatOr0(meterData[1].total_kwh_consumed_ac)),
                     !.result = <<PerformanceAnalyticsDto(queries[q].vehicleId,
                                                          vehicleStats, meterData)>>]]
  /\ UNCHANGED <<loop, NOW, clock, stores, meterHistorySeq, vehicleHistorySeq, calls, started>>

\* getVehiclePerformance24h: the meter SELECT, the ratio, the health status and the result
getVehiclePerformance24h_meterData(q) ==
  /\ queries[q].op = "getVehiclePerformance24h" /\ queries[q].pc = "meterData"
  /\ LET meterData == meterDataQuery(meterHistory, queries[q].twentyFourHoursAgo,
                        queries[q].now, <<>>)
         vehicleStats == queries[q].vehicleData[1]
     IN  queries' = [queries EXCEPT ![q] =
           [@ EXCEPT !.pc = "resolved",
                     !.read = <<queries[q].read[1], Len(meterHistory)>>,
                     !.efficiencyRatio =
                       efficiencyRatio(parseFloatOr0(vehicleStats.total_kwh_delivered_dc),
                                       parseFloatOr0(meterData[1].total_kwh_consumed_ac)),
                     !.result = <<PerformanceAnalyticsDto(queries[q].vehicleId,
                                                          vehicleStats, meterData)>>]]
  /\ UNCHANGED <<loop, NOW, clock, stores, meterHistorySeq, vehicleHistorySeq, calls, started>>

getVehiclePerformanceWithMeter_vehicleData(q) ==
  /\ queries[q].op = "getVehiclePerformanceWithMeter" /\ queries[q].pc = "vehicleData"
  /\ LET vehicleData == vehicleDataQuery(vehicleHistory, queries[q].vehicleId,
                          queries[q].twentyFourHoursAgo, queries[q].now)
     IN  queries' = [queries EXCEPT ![q] =
           IF Len(vehicleData) = 0
           THEN [@ EXCEPT !.pc = "rejected", !.error = "NotFoundException",
                          !.read = <<Len(vehicleHistory), 0>>]
           ELSE [@ EXCEPT !.pc = "meterData", !.vehicleData = vehicleData,
                          !.read = <<Len(vehicleHistory), 0>>]]
  /\ UNCHANGED <<loop, NOW, clock, stores, meterHistorySeq, vehicleHistorySeq, calls, started>>

\* getVehiclePerformanceWithMeter whose meter SELECT leaves out the
\* condition on meter_id
getVehiclePerformanceWithMeter_meterData_Unfiltered(q) ==
  /\ queries[q].op = "getVehiclePerformanceWithMeter" /\ queries[q].pc = "meterData"
  /\ LET meterData == meterDataQuery(meterHistory, queries[q].twentyFourHoursAgo,
                        queries[q].now, <<>>)
         vehicleStats == queries[q].vehicleData[1]
     IN  queries' = [queries EXCEPT ![q] =
           [@ EXCEPT !.pc = "resolved",
                     !.read = <<queries[q].read[1], Len(meterHistory)>>,
                     !.efficiencyRatio =
                       efficiencyRatio(parseFloatOr0(vehicleStats.total_kwh_delivered_dc),
                                       parseFloatOr0(meterData[1].total_kwh_consumed_ac)),
                     !.result = <<PerformanceAnalyticsDto(queries[q].vehicleId,
                                                          vehicleStats, meterData)>>]]
  /\ UNCHANGED <<loop, NOW, clock, stores, meterHistorySeq, vehicleHistorySeq, calls, started>>

\* getVehiclePerformanceWithMeter: the meter SELECT, the ratio, the health status and the result
getVehiclePerformanceWithMeter_meterData(q) ==
  /\ queries[q].op = "getVehiclePerformanceWithMeter" /\ queries[q].pc = "meterData"
  /\ LET meterData == meterDataQuery(meterHistory, queries[q].twentyFourHoursAgo,
                        queries[q].now, queries[q].meterId)
         vehicleStats == queries[q].vehicleData[1]
     IN  queries' = [queries EXCEPT ![q] =
           [@ EXCEPT !.pc = "resolved",
                     !.read = <<queries[q].read[1], Len(meterHistory)>>,
                     !.efficiencyRatio =
                       efficiencyRatio(parseFloatOr0(vehicleStats.total_kwh_delivered_dc),
                                       parseFloatOr0(meterData[1].total_kwh_consumed_ac)),
                     !.result = <<PerformanceAnalyticsDto(queries[q].vehicleId,
                                                          vehicleStats, meterData)>>]]
  /\ UNCHANGED <<loop, NOW, clock, stores, meterHistorySeq, vehicleHistorySeq, calls, started>>

(***************************************************************************)
(* One analytics request running while one caller ingests single readings  *)
(***************************************************************************)
\* readings ingested while a request runs: 08:00Z, 10:00Z and 30 h, two
\* devices of each class
AnalyticsMeterInputs == {mA, mB, mC}
AnalyticsVehicleInputs == {vA, vB, vC}

AnalyticsNext ==
  \/ \E data \in AnalyticsMeterInputs : ingestMeterTelemetry("c1", data)
  \/ ingestMeterTelemetry_upsert("c1")
  \/ ingestMeterTelemetry_insert("c1")
  \/ ingestMeterTelemetry_commit("c1")
  \/ \E data \in AnalyticsVehicleInputs : ingestVehicleTelemetry("c1", data)
  \/ ingestVehicleTelemetry_upsert("c1")
  \/ ingestVehicleTelemetry_insert("c1")
  \/ ingestVehicleTelemetry_commit("c1")
  \/ transaction_failed("c1")
  \/ \E vehicleId \in QueryVehicleIds, meterId \in QueryMeterIds :
       getPerformance("q1", vehicleId, meterId)
  \/ getVehiclePerformance24h_vehicleData("q1")
  \/ getVehiclePerformance24h_meterData("q1")
  \/ getVehiclePerformanceWithMeter_vehicleData("q1")
  \/ getVehiclePerformanceWithMeter_meterData("q1")

SpecAnalytics == Init /\ [][AnalyticsNext]_vars

(***************************************************************************)
(* Two analytics requests over committed stores that hold one reading of   *)
(* VEHICLE_001 and at most one of METER_001, both of 10:00Z                *)
(***************************************************************************)
\* delivered energy of the vehicle reading, in 10^-3 kWh: around 0.75 and
\* 0.85 of 10 kWh, none, all of it, twice as much, and 22.499 and 25.499
\* kWh, which are 0.74996.. and 0.84996.. of 30 kWh
DeliveredSamples ==
  {0, 10000, 20000, 22499, 25499} \cup (7495..7505) \cup (8495..8505)

\* consumed energy of the meter reading, in 10^-3 kWh; <<>> for no reading
SourceSamples == { <<>>, <<0>>, <<10000>>, <<30000>> }

VehicleSample(d) ==
  [vehicleId |-> "VEHICLE_001", soc |-> 50 * Pow10(InputDigits),
   kwhDeliveredDc |-> d * Pow10(InputDigits - 3),
   batteryTemp |-> 352 * Pow10(InputDigits - 1),
   timestamp |-> [local |-> 10, offset |-> 0]]

MeterSample(s) ==
  [meterId |-> "METER_001", kwhConsumedAc |-> s * Pow10(InputDigits - 3),
   voltage |-> 240 * Pow10(InputDigits),
   timestamp |-> [local |-> 10, offset |-> 0]]

\* the stores after ingestVehicleTelemetry(VehicleSample(d)) and, for
\* s # <<>>, ingestMeterTelemetry(MeterSample(s[1])) have committed
ReportInit ==
  /\ \E d \in DeliveredSamples, s \in SourceSamples :
       LET v == <<VehicleSample(d)>>
           m == IF s = <<>> THEN <<>> ELSE <<MeterSample(s[1])>>
       IN  /\ currentVehicleStatus = UpsertVehicle({}, MapSeq(VehicleHotValues, v), 0)
           /\ vehicleHistory = InsertVehicleHistory(MapSeq(VehicleColdValues, v), 0, 0)
           /\ vehicleHistorySeq = 1
           /\ currentMeterStatus = UpsertMeter({}, MapSeq(MeterHotValues, m), 0)
           /\ meterHistory = InsertMeterHistory(MapSeq(MeterColdValues, m), 0, 0)
           /\ meterHistorySeq = Len(m)
  /\ calls = [c \in Callers |-> NoCall]
  /\ started = 0
  /\ loop = NoLoop
  /\ clock = 0
  /\ queries = [q \in Clients |-> NoQuery]
  /\ NOW = 0

ReportNext ==
  \E q \in Clients :
    \/ \E vehicleId \in {"VEHICLE_001", "VEHICLE_404"},
          meterId \in {<<>>, <<"METER_001">>, <<"METER_002">>} :
         getPerformance(q, vehicleId, meterId)
    \/ getVehiclePerformance24h_vehicleData(q)
    \/ getVehiclePerformance24h_meterData(q)
    \/ getVehiclePerformanceWithMeter_vehicleData(q)
    \/ getVehiclePerformanceWithMeter_meterData(q)

SpecReport == ReportInit /\ [][ReportNext]_vars

(***************************************************************************)
(* Properties of the analytics requests                                    *)
(***************************************************************************)
\* C13: the health status of every report is decided by the efficiency
\* ratio alone, in three bands that cover every ratio and do not overlap:
\* healthy from 0.85 up, degraded from 0.75 up to but not including 0.85,
\* critical below 0.75; so 0.85 is healthy, 0.8499 and 0.75 are degraded,
\* 0.7499 and 0 are critical.
C13_TierBands ==
  \A q \in Clients :
    queries[q].pc = "resolved" =>
      LET r == queries[q].efficiencyRatio
          t == queries[q].result[1].healthStatus
      IN  /\ r.den > 0
          /\ t \in {"healthy", "degraded", "critical"}
          /\ t = "healthy" <=> r.num * 100 >= 85 * r.den
          /\ t = "degraded" <=> (r.num * 100 >= 75 * r.den /\ r.num * 100 < 85 * r.den)
          /\ t = "critical" <=> r.num * 100 < 75 * r.den
          /\ r.num * 10000 = 8500 * r.den => t = "healthy"
          /\ r.num * 10000 = 8499 * r.den => t = "degraded"
          /\ r.num * 10000 = 7500 * r.den => t = "degraded"
          /\ r.num * 10000 = 7499 * r.den => t = "critical"
          /\ r.num = 0 => t = "critical"

\* of two reports over the same stores one has a ratio of exactly 0.85 and
\* is healthy, the other has no meter in its sum, a ratio of 0 and is critical
C13_Witness ==
  /\ queries["q1"].pc = "resolved"
  /\ queries["q1"].efficiencyRatio = [num |-> 8500, den |-> 10000]
  /\ queries["q1"].result[1].healthStatus = "healthy"
  /\ queries["q2"].pc = "resolved"
  /\ queries["q2"].efficiencyRatio.num = 0
  /\ queries["q2"].result[1].healthStatus = "critical"

\* the sum of a column over the rows at a set of positions of a history
RECURSIVE SumOver(_, _, _)
SumOver(history, S, col) ==
  IF S = {} THEN 0
  ELSE LET k == CHOOSE x \in S : TRUE
       IN  history[k][col] + SumOver(history, S \ {k}, col)

\* positions of the vehicle rows a request is about: committed when its
\* vehicle SELECT ran, of its vehicle, timestamp in [now - 24 h, now]
VehicleIndexes(q) ==
  { k \in 1..queries[q].read[1] :
      /\ vehicleHistory[k].vehicleId = queries[q].vehicleId
      /\ queries[q].now - 24 <= vehicleHistory[k].timestamp
      /\ vehicleHistory[k].timestamp <= queries[q].now }

\* positions of the meter rows a request is about: committed when its meter
\* SELECT ran, timestamp in [now - 24 h, now], of the meter the request
\* names if it names one
MeterIndexes(q) ==
  { k \in 1..queries[q].read[2] :
      /\ queries[q].now - 24 <= meterHistory[k].timestamp
      /\ meterHistory[k].timestamp <= queries[q].now
      /\ Truthy(queries[q].meterId) => meterHistory[k].meterId = queries[q].meterId[1] }

TotalDelivered(q) == SumOver(vehicleHistory, VehicleIndexes(q), "kwhDeliveredDc")
TotalSource(q) == SumOver(meterHistory, MeterIndexes(q), "kwhConsumedAc")

\* C14: the efficiency ratio of a report is total delivered energy divided
\* by total source energy when the source energy is above zero, and 0
\* otherwise; no division by zero takes place, the request ends without an
\* error and the reported ratio is a number: the ratio rounded to 4 places.
C14_RatioDefined ==
  \A q \in Clients :
    queries[q].pc = "resolved" =>
      LET r == queries[q].efficiencyRatio
          reported == queries[q].result[1].efficiencyRatio
      IN  /\ r.den > 0
          /\ TotalSource(q) > 0 => r.num * TotalSource(q) = TotalDelivered(q) * r.den
          /\ TotalSource(q) <= 0 => r.num = 0
          /\ queries[q].error = "none"
          /\ reported \in Nat
          /\ 2 * (r.num * 10000 - reported * r.den) <= r.den
          /\ 2 * (reported * r.den - r.num * 10000) <= r.den

\* over the same stores one report has no source energy (its meter filter
\* matches nothing) and a ratio of 0 although energy was delivered, the
\* other has the ratio 8.497 / 10
C14_Witness ==
  /\ queries["q1"].pc = "resolved"
  /\ TotalSource("q1") = 0 /\ TotalDelivered("q1") = 8497
  /\ queries["q1"].result[1].efficiencyRatio = 0
  /\ queries["q2"].pc = "resolved"
  /\ TotalSource("q2") = 10000 /\ TotalDelivered("q2") = 8497
  /\ queries["q2"].result[1].efficiencyRatio = 8497

VehicleSeen(q) == SubSeq(vehicleHistory, 1, queries[q].read[1])
MeterSeen(q) == SubSeq(meterHistory, 1, queries[q].read[2])

\* the result of a request had its statements run on the histories vh and mh:
\* <<>> for NotFound, else the report
ResultOn(vh, mh, q) ==
  LET vehicleData == vehicleDataQuery(vh, queries[q].vehicleId,
                                      queries[q].twentyFourHoursAgo, queries[q].now)
      meterData == meterDataQuery(mh, queries[q].twentyFourHoursAgo, queries[q].now,
                     IF queries[q].op = "getVehiclePerformanceWithMeter"
                     THEN queries[q].meterId ELSE <<>>)
  IN  IF vehicleData = <<>> THEN <<>>
      ELSE <<PerformanceAnalyticsDto(queries[q].vehicleId, vehicleData[1], meterData)>>

\* a history without its rows outside the closed window of a request
InsideWindow(history, q) ==
  SelectSeq(history, LAMBDA r : r.timestamp \in (queries[q].now - 24)..queries[q].now)

\* instants outside the window of a request: the hour before it, the hour
\* after now, and a later day
OutsideInstants(q) == {queries[q].now - 25, queries[q].now + 1, queries[q].now + 30}

\* rows that differ from the request's rows only by lying outside its window
OutsideVehicleRows(q) ==
  { [id |-> 1000, vehicleId |-> queries[q].vehicleId, soc |-> 4200,
     kwhDeliveredDc |-> 77777, batteryTemp |-> <<9999>>,
     timestamp |-> t, status |-> "valid"] : t \in OutsideInstants(q) }

OutsideMeterRows(q) ==
  { [id |-> 1000, meterId |-> m, kwhConsumedAc |-> 55555, voltage |-> 23000,
     timestamp |-> t, status |-> "valid"] : t \in OutsideInstants(q), m \in MeterIds }

\* C17: the outcome of a request depends only on the history rows whose
\* timestamp is in the closed window [now - 24 h, now]: it is the outcome the
\* same request has on histories stripped of every row outside the window,
\* and on histories that hold further rows before the window, after now or
\* in later partitions.
C17_OnlyWindowRowsMatter ==
  \A q \in Clients :
    queries[q].pc \in {"resolved", "rejected"} =>
      /\ queries[q].result = ResultOn(VehicleSeen(q), MeterSeen(q), q)
      /\ queries[q].result =
           ResultOn(InsideWindow(VehicleSeen(q), q), InsideWindow(MeterSeen(q), q), q)
      /\ \A x \in OutsideVehicleRows(q), y \in OutsideMeterRows(q) :
           /\ queries[q].result =
                ResultOn(VehicleSeen(q) \o <<x>>, <<y>> \o MeterSeen(q), q)
           /\ queries[q].result =
                ResultOn(<<x, x>> \o InsideWindow(VehicleSeen(q), q),
                         InsideWindow(MeterSeen(q), q) \o <<y, y>>, q)

\* a report computed at 10:00Z of 2026-02-09 while the meter history holds
\* a row of the next day's partition, after now, and a row in the window:
\* only the row in the window is in the sum
C17_Witness ==
  /\ queries["q1"].pc = "resolved" /\ queries["q1"].now = 10
  /\ queries["q1"].op = "getVehiclePerformance24h"
  /\ \E k \in 1..queries["q1"].read[2] : meterHistory[k].timestamp > queries["q1"].now
  /\ MeterIndexes("q1") # {}
  /\ Cardinality(MeterIndexes("q1")) < queries["q1"].read[2]
  /\ queries["q1"].result[1].totalKwhConsumedAc = TotalSource("q1")

\* two requests have the same arguments
SameArguments(p, q) ==
  /\ queries[p].vehicleId = queries[q].vehicleId
  /\ queries[p].meterId = queries[q].meterId

Finished(q) == queries[q].pc \in {"resolved", "rejected"}

\* no request changes a store (no other writer runs in SpecReport)
StoresUntouched ==
  [][ /\ stores' = stores
      /\ meterHistorySeq' = meterHistorySeq
      /\ vehicleHistorySeq' = vehicleHistorySeq ]_vars

C19_ReportMatchesCommittedRows ==
  /\ [](\A q \in Clients :
          queries[q].pc = "resolved" =>
            /\ queries[q].result[1].readingCount = Cardinality(VehicleIndexes(q))
            /\ queries[q].result[1].totalKwhDeliveredDc = TotalDelivered(q)
            /\ queries[q].result[1].totalKwhConsumedAc = TotalSource(q)
            /\ queries[q].result[1].periodStart \in
                 { vehicleHistory[k].timestamp : k \in VehicleIndexes(q) }
            /\ queries[q].result[1].periodEnd \in
                 { vehicleHistory[k].timestamp : k \in VehicleIndexes(q) })
  /\ [][ \A q \in Clients :
           /\ (queries[q].pc = "vehicleData" /\ queries'[q] # queries[q]) =>
                /\ queries'[q].read[1] = Len(vehicleHistory)
                /\ vehicleHistory' = vehicleHistory
                /\ queries'[q].pc = "meterData" =>
                     queries'[q].vehicleData[1].reading_count =
                       Cardinality({ k \in 1..Len(vehicleHistory) :
                         /\ vehicleHistory[k].vehicleId = queries[q].vehicleId
                         /\ vehicleHistory[k].timestamp \in
                              (queries[q].now - 24)..queries[q].now })
           /\ (queries[q].pc = "meterData" /\ queries'[q] # queries[q]) =>
                /\ queries'[q].read[2] = Len(meterHistory)
                /\ meterHistory' = meterHistory ]_vars

\* a report for VEHICLE_001 counts the one committed reading of the vehicle
\* and the one committed meter reading; a second reading of the vehicle, in
\* the window, had been inserted by a transaction that then failed
C19_Witness ==
  /\ queries["q1"].pc = "resolved" /\ queries["q1"].vehicleId = "VEHICLE_001"
  /\ queries["q1"].now = 10
  /\ queries["q1"].result[1].readingCount = 1
  /\ queries["q1"].result[1].totalKwhDeliveredDc = Decimal(vB.kwhDeliveredDc, 3)
  /\ queries["q1"].result[1].totalKwhConsumedAc = Decimal(mA.kwhConsumedAc, 3)
  /\ calls["c1"].op = "ingestVehicleTelemetry" /\ calls["c1"].readings = <<vA>>
  /\ calls["c1"].pc = "rejected" /\ calls["c1"].error = "DB Error"
  /\ vehicleHistorySeq = 2 /\ Len(vehicleHistory) = 1

\* the meters that have a row in the cold store
KnownMeterIds == { meterHistory[k].meterId : k \in 1..Len(meterHistory) }

\* positions of the meter rows in the window of a request, committed when
\* its meter SELECT ran: those of meter m, and those of every other meter
WindowRowsOf(q, m) ==
  { k \in 1..queries[q].read[2] :
      /\ meterHistory[k].timestamp \in (queries[q].now - 24)..queries[q].now
      /\ meterHistory[k].meterId = m }
WindowRowsNotOf(q, m) ==
  { k \in 1..queries[q].read[2] :
      /\ meterHistory[k].timestamp \in (queries[q].now - 24)..queries[q].now
      /\ meterHistory[k].meterId # m }
ConsumedBy(q, m) == SumOver(meterHistory, WindowRowsOf(q, m), "kwhConsumedAc")
ConsumedByOthers(q, m) == SumOver(meterHistory, WindowRowsNotOf(q, m), "kwhConsumedAc")

\* C20: a request that names a meter (a non-empty meterId) is served by
\* getVehiclePerformanceWithMeter and its totalKwhConsumedAc is the sum over
\* the rows of that meter in the window, whatever the other meters have
\* there; a request that names none is served by getVehiclePerformance24h
\* and its totalKwhConsumedAc is the sum over the rows of all meters in the
\* window, so that for any meter m, energy consumed by the other meters in
\* the window makes the ratio differ from the ratio taken against m alone.
C20_MeterFilter ==
  \A q \in Clients :
    /\ queries[q].op # "none" =>
         (queries[q].op = "getVehiclePerformanceWithMeter" <=> Truthy(queries[q].meterId))
    /\ queries[q].pc = "resolved" =>
         LET consumed == queries[q].result[1].totalKwhConsumedAc
             delivered == queries[q].result[1].totalKwhDeliveredDc
         IN  IF Truthy(queries[q].meterId)
             THEN /\ consumed = ConsumedBy(q, queries[q].meterId[1])
                  /\ queries[q].efficiencyRatio =
                       efficiencyRatio(delivered, ConsumedBy(q, queries[q].meterId[1]))
             ELSE \A m \in KnownMeterIds \cup {"METER_001", "METER_002"} :
                    /\ consumed = ConsumedBy(q, m) + ConsumedByOthers(q, m)
                    /\ queries[q].efficiencyRatio = efficiencyRatio(delivered, consumed)
                    /\ (ConsumedByOthers(q, m) > 0 /\ delivered > 0) =>
                         /\ consumed > ConsumedBy(q, m)
                         /\ queries[q].efficiencyRatio #
                              efficiencyRatio(delivered, ConsumedBy(q, m))

\* a report for VEHICLE_001 restricted to METER_001 whose consumed energy is
\* the reading of METER_001 alone, while a reading of METER_002 is in the
\* same window and was committed when the meter SELECT ran
C20_Witness ==
  /\ queries["q1"].pc = "resolved" /\ queries["q1"].meterId = <<"METER_001">>
  /\ queries["q1"].vehicleId = "VEHICLE_001"
  /\ queries["q1"].result[1].totalKwhConsumedAc = Decimal(mA.kwhConsumedAc, 3)
  /\ WindowRowsOf("q1", "METER_001") # {}
  /\ WindowRowsOf("q1", "METER_002") # {}
  /\ ConsumedByOthers("q1", "METER_001") = Decimal(mC.kwhConsumedAc, 3)

(***************************************************************************)
(* Properties of the device classes, the tags and the chunk order          *)
(***************************************************************************)
\* C21: every step of a meter ingestion call (single or batch; start,
\* upsert, insert, commit, failure) leaves current_vehicle_status,
\* vehicle_telemetry_history and its id sequence unchanged, and every step
\* of a vehicle ingestion call leaves the two meter tables and their id
\* sequence unchanged; a call of one class never waits for a row lock held
\* by a call of the other class.
C21_ClassesDoNotInteract ==
  /\ [][ \A c \in Callers :
           calls'[c] # calls[c] =>
             /\ calls'[c].op \in {"ingestMeterTelemetry", "ingestMeterBatch"} =>
                  UNCHANGED <<currentVehicleStatus, vehicleHistory, vehicleHistorySeq>>
             /\ calls'[c].op \in {"ingestVehicleTelemetry", "ingestVehicleBatch"} =>
                  UNCHANGED <<currentMeterStatus, meterHistory, meterHistorySeq>> ]_vars
  /\ [](\A c, d \in Callers :
          WaitsFor(c, d) => (IsMeterOp(c) <=> IsMeterOp(d)))
  /\ [](\A c, d \in Callers :
          (c # d /\ calls[c].pc = "begun" /\ InTx(d) /\ IsMeterOp(c) # IsMeterOp(d)) =>
             IF IsMeterOp(c) THEN MeterKeyFree(c, NextKey(c))
             ELSE VehicleKeyFree(c, NextKey(c)))

\* a meter batch has failed after committing a chunk while a vehicle
\* transaction is open next to committed vehicle rows
C21_Witness ==
  /\ calls["c1"].op = "ingestMeterBatch" /\ calls["c1"].pc = "rejected"
  /\ Len(calls["c1"].insertedIds) = ChunkSize
  /\ calls["c2"].op = "ingestVehicleTelemetry" /\ calls["c2"].pc = "inserted"
  /\ vehicleHistory # <<>> /\ currentVehicleStatus # {}
  /\ Len(meterHistory) = ChunkSize

(***************************************************************************)
(* Ingestion into a database whose status rows of METER_001 and            *)
(* VEHICLE_001 carry any tag of the type telemetry_status                  *)
(***************************************************************************)
\* CREATE TYPE telemetry_status AS ENUM ('valid', 'anomaly', 'missing')
TelemetryStatus == {"valid", "anomaly", "missing"}

\* the stores after ingestMeterTelemetry(mB) and ingestVehicleTelemetry(vB)
\* have committed, the column status of the two status rows then set to a
\* value of its type by a writer other than the ingestion service
TagInit ==
  /\ \E meterTag \in TelemetryStatus, vehicleTag \in TelemetryStatus :
       /\ currentMeterStatus =
            { [r EXCEPT !.status = meterTag] :
                r \in UpsertMeter({}, MapSeq(MeterHotValues, <<mB>>), 0) }
       /\ currentVehicleStatus =
            { [r EXCEPT !.status = vehicleTag] :
                r \in UpsertVehicle({}, MapSeq(VehicleHotValues, <<vB>>), 0) }
  /\ meterHistory = InsertMeterHistory(MapSeq(MeterColdValues, <<mB>>), 0, 0)
  /\ meterHistorySeq = 1
  /\ vehicleHistory = InsertVehicleHistory(MapSeq(VehicleColdValues, <<vB>>), 0, 0)
  /\ vehicleHistorySeq = 1
  /\ calls = [c \in Callers |-> NoCall]
  /\ started = 0
  /\ loop = NoLoop
  /\ clock = 0
  /\ queries = [q \in Clients |-> NoQuery]
  /\ NOW = 0

\* the ingestion calls of one caller
TagNext ==
  \/ \E data \in MeterInputs : ingestMeterTelemetry("c1", data)
  \/ ingestMeterTelemetry_upsert("c1")
  \/ ingestMeterTelemetry_insert("c1")
  \/ ingestMeterTelemetry_commit("c1")
  \/ \E data \in VehicleInputs : ingestVehicleTelemetry("c1", data)
  \/ ingestVehicleTelemetry_upsert("c1")
  \/ ingestVehicleTelemetry_insert("c1")
  \/ ingestVehicleTelemetry_commit("c1")
  \/ \E readings \in MeterBatchInputs : ingestMeterBatch("c1", readings)
  \/ ingestMeterBatch_upsert("c1")
  \/ ingestMeterBatch_insert("c1")
  \/ ingestMeterBatch_commit("c1")
  \/ \E readings \in VehicleBatchInputs : ingestVehicleBatch("c1", readings)
  \/ ingestVehicleBatch_upsert("c1")
  \/ ingestVehicleBatch_insert("c1")
  \/ ingestVehicleBatch_commit("c1")
  \/ transaction_failed("c1")

SpecTag == TagInit /\ [][TagNext]_vars

AllTagsValid ==
  /\ \A r \in currentMeterStatus \cup currentVehicleStatus : r.status = "valid"
  /\ \A k \in 1..Len(meterHistory) : meterHistory[k].status = "valid"
  /\ \A k \in 1..Len(vehicleHistory) : vehicleHistory[k].status = "valid"

\* C22: every row the ingestion operations insert, into a status table or a
\* history table, carries the tag 'valid', and the upsert onto an existing
\* status row leaves the tag of the row as it was, whichever value of
\* telemetry_status it has; so a database whose rows are all tagged 'valid'
\* stays so under ingestion, and no step tags a row 'anomaly' or 'missing'.
C22_TagsStayValid ==
  /\ [](\A k \in 1..Len(meterHistory) : meterHistory[k].status = "valid")
  /\ [](\A k \in 1..Len(vehicleHistory) : vehicleHistory[k].status = "valid")
  /\ [][ /\ \A new \in currentMeterStatus' :
              IF \E old \in currentMeterStatus : old.meterId = new.meterId
              THEN \E old \in currentMeterStatus :
                     old.meterId = new.meterId /\ new.status = old.status
              ELSE new.status = "valid"
         /\ \A new \in currentVehicleStatus' :
              IF \E old \in currentVehicleStatus : old.vehicleId = new.vehicleId
              THEN \E old \in currentVehicleStatus :
                     old.vehicleId = new.vehicleId /\ new.status = old.status
              ELSE new.status = "valid" ]_vars
  /\ (AllTagsValid => []AllTagsValid)

\* the status row of METER_001, tagged 'anomaly', has been overwritten by the
\* reading mA and is still tagged 'anomaly'; the row of METER_002, inserted
\* by the same batch, is tagged 'valid'
C22_Witness ==
  /\ \E r \in currentMeterStatus :
       /\ r.meterId = "METER_001" /\ r.status = "anomaly"
       /\ r.lastUpdateTimestamp = NewDate(mA.timestamp)
       /\ r.kwhConsumedAc = Decimal(mA.kwhConsumedAc, 3)
  /\ \E r \in currentMeterStatus : r.meterId = "METER_002" /\ r.status = "valid"
  /\ calls["c1"].op = "ingestMeterBatch" /\ calls["c1"].pc = "resolved"
  /\ Len(meterHistory) = 3

\* C23: a batch call carrying more than 1000 readings commits no chunk and
\* does not resolve.
C23_AtMost1000PerCall ==
  loop.n > 1000 =>
    /\ loop.chunks = <<>>
    /\ loop.pc # "resolved"

\* position of the committed history row with a given id
PositionOfId(history, id) == CHOOSE k \in 1..Len(history) : history[k].id = id

\* the history table a call writes
HistoryOf(c) == IF IsMeterOp(c) THEN meterHistory ELSE vehicleHistory

\* C24: within one batch call the chunks are applied one after the other in
\* input order.  At every moment the readings the call has committed are the
\* first i readings of its input, i a multiple of the chunk size, their
\* history rows lying in the table in input order; the only transaction the
\* call can have open is the one of the chunk that starts at reading i; and
\* the call moves to the next chunk only in the step that commits the rows
\* of the current one.
C24_ChunksSequential ==
  /\ [](\A c \in Callers :
          IsBatchOp(c) =>
            /\ calls[c].i % ChunkSize = 0
            /\ Len(calls[c].insertedIds) = Min(calls[c].i, Len(calls[c].readings))
            /\ IdsIn(calls[c].insertedIds, HistoryOf(c))
            /\ \A p \in 1..Len(calls[c].insertedIds) :
                 LET row == RowWithId(HistoryOf(c), calls[c].insertedIds[p])
                 IN  /\ row.timestamp = NewDate(calls[c].readings[p].timestamp)
                     /\ IF IsMeterOp(c)
                        THEN row.meterId = calls[c].readings[p].meterId
                        ELSE row.vehicleId = calls[c].readings[p].vehicleId
            /\ \A p, r \in 1..Len(calls[c].insertedIds) :
                 p < r => PositionOfId(HistoryOf(c), calls[c].insertedIds[p])
                            < PositionOfId(HistoryOf(c), calls[c].insertedIds[r])
            /\ InTx(c) =>
                 /\ calls[c].i < Len(calls[c].readings)
                 /\ Batch(c) = slice(calls[c].readings, Len(calls[c].insertedIds),
                                     Len(calls[c].insertedIds) + ChunkSize))
  /\ [][ \A c \in Callers :
           (IsBatchOp(c) /\ InTx(c) /\ calls'[c].i # calls[c].i) =>
             /\ calls[c].pc = "inserted"
             /\ calls'[c].i = calls[c].i + ChunkSize
             /\ Len(calls'[c].insertedIds) = Len(calls[c].insertedIds) + Len(Batch(c))
             /\ IF IsMeterOp(c)
                THEN Len(meterHistory') = Len(meterHistory) + Len(Batch(c))
                ELSE Len(vehicleHistory') = Len(vehicleHistory) + Len(Batch(c)) ]_vars

\* the second transaction of the batch <<mC, mA, mB>> is open; the first
\* chunk, and only it, is committed, and the other caller has committed a
\* row in between
C24_Witness ==
  /\ calls["c1"].op = "ingestMeterBatch" /\ calls["c1"].readings = <<mC, mA, mB>>
  /\ calls["c1"].i = ChunkSize /\ calls["c1"].pc = "upserted"
  /\ Len(calls["c1"].insertedIds) = ChunkSize
  /\ Len(meterHistory) = ChunkSize + 1
  /\ calls["c2"].op = "ingestMeterTelemetry" /\ calls["c2"].pc = "resolved"

(***************************************************************************)
(* Ingestion while the clock of the database server advances               *)
(***************************************************************************)
\* last instant of the database clock
MaxNow == 2

\* time passes on the database server
tick ==
  /\ NOW < MaxNow
  /\ NOW' = NOW + 1
  /\ UNCHANGED <<stores, meterHistorySeq, vehicleHistorySeq, calls, started, loop,
                 clock, queries>>

\* readings and batches ingested while the clock advances
StampMeterInputs == {mA, mB, mC}
StampVehicleInputs == {vA, vB}
StampMeterBatchInputs == { <<mC, mA>>, <<mC, mA, mB>> }
StampVehicleBatchInputs == { <<vC, vA, vB>> }

\* one caller running every ingestion method, a second caller running
\* single meter readings, storage failures, and the clock
StampNext ==
  \/ tick
  \/ \E data \in StampMeterInputs : ingestMeterTelemetry("c1", data)
  \/ \E data \in StampMeterInputs : ingestMeterTelemetry("c2", data)
  \/ \E c \in Callers :
       \/ ingestMeterTelemetry_upsert(c)
       \/ ingestMeterTelemetry_insert(c)
       \/ ingestMeterTelemetry_commit(c)
       \/ transaction_failed(c)
  \/ \E data \in StampVehicleInputs : ingestVehicleTelemetry("c1", data)
  \/ ingestVehicleTelemetry_upsert("c1")
  \/ ingestVehicleTelemetry_insert("c1")
  \/ ingestVehicleTelemetry_commit("c1")
  \/ \E readings \in StampMeterBatchInputs : ingestMeterBatch("c1", readings)
  \/ ingestMeterBatch_upsert("c1")
  \/ ingestMeterBatch_insert("c1")
  \/ ingestMeterBatch_commit("c1")
  \/ \E readings \in StampVehicleBatchInputs : ingestVehicleBatch("c1", readings)
  \/ ingestVehicleBatch_upsert("c1")
  \/ ingestVehicleBatch_insert("c1")
  \/ ingestVehicleBatch_commit("c1")

SpecStamp == Init /\ [][StampNext]_vars

Min2(S) == CHOOSE x \in S : \A y \in S : x <= y

\* the reading of a chunk that the upsert of a committing call applies to device d
MeterReadingFor(c, d) ==
  CHOOSE data \in { Batch(c)[k] : k \in 1..Len(Batch(c)) } : data.meterId = d
VehicleReadingFor(c, d) ==
  CHOOSE data \in { Batch(c)[k] : k \in 1..Len(Batch(c)) } : data.vehicleId = d

\* C26: the commit of a reading onto an existing status row replaces the
\* reading fields of the row (energy, voltage or soc, batteryTemp, which
\* becomes NULL when the reading has none, lastUpdateTimestamp) by those of
\* the reading and updatedAt by NOW() of the committing transaction, and
\* leaves the device id and createdAt as they were; rows of other devices
\* are untouched; at every moment createdAt of a status row is the creation
\* instant of the first history row of its device, and updatedAt that of the
\* last one.
C26_UpsertOverwritesAllButIdentity ==
  /\ [][ \A c \in Callers :
           /\ (MeterSingleCommits(c) \/ MeterBatchCommits(c)) =>
                \A old \in currentMeterStatus :
                  \E new \in currentMeterStatus' :
                    /\ new.meterId = old.meterId
                    /\ new.createdAt = old.createdAt
                    /\ new.status = old.status
                    /\ IF \E k \in 1..Len(Batch(c)) : Batch(c)[k].meterId = old.meterId
                       THEN LET data == MeterReadingFor(c, old.meterId)
                            IN  /\ MeterRounded(new, data)
                                /\ new.lastUpdateTimestamp = NewDate(data.timestamp)
                                /\ new.updatedAt = calls[c].now
                       ELSE new = old
           /\ (VehicleSingleCommits(c) \/ VehicleBatchCommits(c)) =>
                \A old \in currentVehicleStatus :
                  \E new \in currentVehicleStatus' :
                    /\ new.vehicleId = old.vehicleId
                    /\ new.createdAt = old.createdAt
                    /\ new.status = old.status
                    /\ IF \E k \in 1..Len(Batch(c)) : Batch(c)[k].vehicleId = old.vehicleId
                       THEN LET data == VehicleReadingFor(c, old.vehicleId)
                            IN  /\ VehicleRounded(new, data)
                                /\ new.lastUpdateTimestamp = NewDate(data.timestamp)
                                /\ new.updatedAt = calls[c].now
                       ELSE new = old ]_vars
  /\ [](\A r \in currentMeterStatus :
          /\ MeterRowsOf(r.meterId) # {}
          /\ r.createdAt = meterHistory[Min2(MeterRowsOf(r.meterId))].createdAt
          /\ r.updatedAt = meterHistory[Max(MeterRowsOf(r.meterId))].createdAt)
  /\ [](\A r \in currentVehicleStatus :
          /\ VehicleRowsOf(r.vehicleId) # {}
          /\ r.createdAt = vehicleHistory[Min2(VehicleRowsOf(r.vehicleId))].createdAt
          /\ r.updatedAt = vehicleHistory[Max(VehicleRowsOf(r.vehicleId))].createdAt)

\* METER_001 was created by the reading mB at instant 0 and overwritten by
\* mA in a transaction begun at instant 2; VEHICLE_001 was created with a
\* battery temperature at instant 0 and overwritten later by a reading
\* without one
C26_Witness ==
  /\ \E r \in currentMeterStatus :
       /\ r.meterId = "METER_001" /\ r.createdAt = 0 /\ r.updatedAt = 2
       /\ MeterRounded(r, mA) /\ r.lastUpdateTimestamp = NewDate(mA.timestamp)
  /\ \E k \in 1..Len(meterHistory) :
       meterHistory[k].meterId = "METER_001" /\ MeterRounded(meterHistory[k], mB)
  /\ \E r \in currentVehicleStatus :
       /\ r.vehicleId = "VEHICLE_001" /\ r.createdAt = 0 /\ r.updatedAt > 0
       /\ r.batteryTemp = <<>> /\ VehicleRounded(r, vB)

(***************************************************************************)
(* Two concurrent calls                                                    *)
(***************************************************************************)
\* the devices a call writes
DeviceIds(c) ==
  IF IsMeterOp(c) THEN { calls[c].readings[k].meterId : k \in 1..Len(calls[c].readings) }
  ELSE IF IsVehicleOp(c)
       THEN { calls[c].readings[k].vehicleId : k \in 1..Len(calls[c].readings) }
       ELSE {}

\* the proposed rows of a whole call, in input order
MeterHotOf(c) ==
  IF IsMeterOp(c) THEN MapSeq(MeterHotValues, calls[c].readings) ELSE <<>>
VehicleHotOf(c) ==
  IF IsVehicleOp(c) THEN MapSeq(VehicleHotValues, calls[c].readings) ELSE <<>>
MeterColdOf(c) ==
  IF IsMeterOp(c) THEN MapSeq(MeterColdValues, calls[c].readings) ELSE <<>>
VehicleColdOf(c) ==
  IF IsVehicleOp(c) THEN MapSeq(VehicleColdValues, calls[c].readings) ELSE <<>>

\* the values of the rows of a history table, without the ids
ValuesOf(history) == { [history[k] EXCEPT !.id = 0] : k \in 1..Len(history) }

\* the four stores after call c and then call d have run alone on empty
\* stores, one after the other, in a transaction begun at instant 0
InSequence(c, d) ==
  [currentMeterStatus |-> UpsertMeter(UpsertMeter({}, MeterHotOf(c), 0), MeterHotOf(d), 0),
   currentVehicleStatus |->
     UpsertVehicle(UpsertVehicle({}, VehicleHotOf(c), 0), VehicleHotOf(d), 0),
   meterHistory |->
     ValuesOf(InsertMeterHistory(MeterColdOf(c), 0, 0) \o
              InsertMeterHistory(MeterColdOf(d), 0, 0)),
   vehicleHistory |->
     ValuesOf(InsertVehicleHistory(VehicleColdOf(c), 0, 0) \o
              InsertVehicleHistory(VehicleColdOf(d), 0, 0))]

\* the four stores as they are, history rows without their ids
Interleaved ==
  [currentMeterStatus |-> currentMeterStatus,
   currentVehicleStatus |-> currentVehicleStatus,
   meterHistory |-> ValuesOf(meterHistory),
   vehicleHistory |-> ValuesOf(vehicleHistory)]

\* the first two calls, one per caller, write different devices
TwoCallsDifferentDevices ==
  /\ started = 2
  /\ calls["c1"].op # "none" /\ calls["c2"].op # "none"
  /\ DeviceIds("c1") \cap DeviceIds("c2") = {}

\* C25: two concurrent calls that write different devices never wait for
\* each other (the row lock either needs is never held by the other, so
\* neither can be the victim of a deadlock), and when both have committed
\* the stores hold what running the two calls one after the other, in either
\* order, leaves: the same status rows, the same history row values, one
\* history row per reading.
C25_DifferentDevicesCommute ==
  TwoCallsDifferentDevices =>
    /\ \A c, d \in Callers :
         /\ ~WaitsFor(c, d)
         /\ calls[c].error # "deadlock detected"
         /\ (c # d /\ calls[c].pc = "begun" /\ NextKey(c) \notin HeldMeterKeys(c)
               /\ NextKey(c) \notin HeldVehicleKeys(c)) =>
              IF IsMeterOp(c) THEN MeterKeyFree(c, NextKey(c))
              ELSE VehicleKeyFree(c, NextKey(c))
    /\ (calls["c1"].pc = "resolved" /\ calls["c2"].pc = "resolved") =>
         /\ Interleaved = InSequence("c1", "c2")
         /\ Interleaved = InSequence("c2", "c1")
         /\ Len(meterHistory) = Len(MeterColdOf("c1")) + Len(MeterColdOf("c2"))
         /\ Len(vehicleHistory) = Len(VehicleColdOf("c1")) + Len(VehicleColdOf("c2"))

\* two single meter calls for METER_001 and METER_002 have both committed,
\* the row of the second caller before the row of the first
C25_Witness ==
  /\ TwoCallsDifferentDevices
  /\ calls["c1"].op = "ingestMeterTelemetry" /\ calls["c1"].readings = <<mA>>
  /\ calls["c2"].op = "ingestMeterTelemetry" /\ calls["c2"].readings = <<mC>>
  /\ calls["c1"].pc = "resolved" /\ calls["c2"].pc = "resolved"
  /\ calls["c2"].insertedIds = <<1>> /\ calls["c1"].insertedIds = <<2>>
  /\ meterHistory[1].meterId = "METER_002"
  /\ Cardinality(currentMeterStatus) = 2

\* the reading fields of a status row and of a history row
MeterFields(r, t) ==
  [meterId |-> r.meterId, kwhConsumedAc |-> r.kwhConsumedAc, voltage |-> r.voltage,
   timestamp |-> t]
VehicleFields(r, t) ==
  [vehicleId |-> r.vehicleId, soc |-> r.soc, kwhDeliveredDc |-> r.kwhDeliveredDc,
   batteryTemp |-> r.batteryTemp, timestamp |-> t]

\* C27: in every state of the committed stores, under every interleaving of
\* single and batch calls of two callers, committed or failed: the devices
\* that have a status row are the devices that have a history row, no device
\* has two status rows, and the reading fields of each status row together
\* with its lastUpdateTimestamp are the fields and the timestamp of one
\* history row of the same device.
C27_StoresAgreePerDevice ==
  /\ { r.meterId : r \in currentMeterStatus } =
       { meterHistory[k].meterId : k \in 1..Len(meterHistory) }
  /\ { r.vehicleId : r \in currentVehicleStatus } =
       { vehicleHistory[k].vehicleId : k \in 1..Len(vehicleHistory) }
  /\ \A r, s \in currentMeterStatus : r.meterId = s.meterId => r = s
  /\ \A r, s \in currentVehicleStatus : r.vehicleId = s.vehicleId => r = s
  /\ \A r \in currentMeterStatus :
       MeterFields(r, r.lastUpdateTimestamp) \in
         { MeterFields(meterHistory[k], meterHistory[k].timestamp) :
             k \in 1..Len(meterHistory) }
  /\ \A r \in currentVehicleStatus :
       VehicleFields(r, r.lastUpdateTimestamp) \in
         { VehicleFields(vehicleHistory[k], vehicleHistory[k].timestamp) :
             k \in 1..Len(vehicleHistory) }

\* VEHICLE_001 has two history rows, one with and one without a battery
\* temperature, committed by a single call and by a batch; its status row
\* is the later one, without temperature; a call of the other caller failed
C27_Witness ==
  /\ Cardinality(VehicleRowsOf("VEHICLE_001")) = 2
  /\ \E k \in VehicleRowsOf("VEHICLE_001") : vehicleHistory[k].batteryTemp # <<>>
  /\ \E r \in currentVehicleStatus :
       /\ r.vehicleId = "VEHICLE_001" /\ r.batteryTemp = <<>>
       /\ r.lastUpdateTimestamp = NewDate(vB.timestamp)
  /\ calls["c1"].op = "ingestVehicleBatch" /\ calls["c1"].pc = "resolved"
  /\ calls["c2"].pc = "rejected"

(***************************************************************************)
(* Properties of the two SELECTs of a request                              *)
(***************************************************************************)
\* positions of the committed rows of the vehicle of a request with a
\* timestamp in its window, whenever they were committed
VehicleRowsInWindow(q) ==
  { k \in 1..Len(vehicleHistory) :
      /\ vehicleHistory[k].vehicleId = queries[q].vehicleId
      /\ vehicleHistory[k].timestamp \in (queries[q].now - 24)..queries[q].now }

\* C28: the vehicle aggregate and the meter aggregate of a report are taken
\* from one committed state.  In particular, with one caller ingesting one
\* reading after the other: a report whose meter aggregate counts the row of
\* the caller's latest call, a meter reading, counts in its vehicle
\* aggregate every row of its vehicle and window committed so far, all of
\* them having been committed before that meter reading.
C28_AggregatesFromOneState ==
  \A q \in Clients :
    ( /\ queries[q].pc = "resolved"
      /\ calls["c1"].op = "ingestMeterTelemetry" /\ calls["c1"].pc = "resolved"
      /\ calls["c2"].op = "none"
      /\ PositionOfId(meterHistory, calls["c1"].insertedIds[1]) \in MeterIndexes(q) )
    => VehicleRowsInWindow(q) = VehicleIndexes(q)

(***************************************************************************)
(* Properties of the reported ratio                                        *)
(***************************************************************************)
\* C29: in every report the efficiencyRatio as reported (rounded to 4
\* places, here in units of 10^-4) agrees with the healthStatus: it is at
\* least 0.85 exactly when the status is healthy and below 0.75 exactly when
\* the status is critical.
C29_ReportedRatioMatchesTier ==
  \A q \in Clients :
    queries[q].pc = "resolved" =>
      LET reported == queries[q].result[1].efficiencyRatio
          t == queries[q].result[1].healthStatus
      IN  /\ reported >= 8500 <=> t = "healthy"
          /\ reported < 7500 <=> t = "critical"

(***************************************************************************)
(* Properties of concurrent batches on the same devices                    *)
(***************************************************************************)
\* C30: of two concurrent batch calls whose chunks name overlapping device
\* ids (the same ids in opposite order included), neither is aborted because
\* of the other: no batch call running beside a batch call of its class on
\* overlapping ids is rejected as the victim of a deadlock.
C30_OverlappingBatchesBothCommit ==
  \A c, d \in Callers :
    ( /\ c # d
      /\ IsBatchOp(c) /\ IsBatchOp(d)
      /\ calls[c].op = calls[d].op
      /\ DeviceIds(c) \cap DeviceIds(d) # {} )
    => calls[c].error # "deadlock detected"
====
